---- MODULE Spec2Model ----
(***************************************************************************)
(* Model of raptor_common/cloud/mqtt_comms.py: the publisher with its      *)
(* module-level backoff state (publish_payload), the correlated            *)
(* request/response exchange (send_message_and_wait_for_response), the     *)
(* reconnecting listener (setup_mqtt_listener) and the connection test     *)
(* (check_connection).                                                     *)
(*                                                                         *)
(* asyncio runs the coroutines of one event loop one at a time; a          *)
(* coroutine is only left at an await that suspends.  Every action below   *)
(* is one such segment of code between two suspension points.              *)
(***************************************************************************)
EXTENDS Integers, Sequences, FiniteSets

(* ---------------------------------------------------------------------- *)
(* Program constants and bounds                                            *)
(* ---------------------------------------------------------------------- *)

\* mqtt_comms.py:18
_max_backoff_seconds == 300

\* failures are counted without bound by the code; the model stops injecting
\* faults once the counter has reached this value
MaxFailures == 9

\* the clock is observed at the instants at which the k-th consecutive retry
\* becomes permitted (k = 0..MaxRetries) and one second before each of them
MaxRetries == 9

\* the coroutines that call the publisher concurrently
Callers == {"c1", "c2"}

\* outcome of an awaited network operation: it completes, or raises one of
\* these (aiomqtt.MqttError, OSError and asyncio.TimeoutError all derive from
\* Exception)
FaultKinds == {"MqttError", "OSError", "TimeoutError"}

\* the classes an `except Exception` clause catches
ExceptionSubclasses == {"MqttError", "OSError", "TimeoutError"}

Min(a, b) == IF a <= b THEN a ELSE b

\* Python's 2 ** n on a non-negative int
RECURSIVE Pow2(_)
Pow2(n) == IF n = 0 THEN 1 ELSE 2 * Pow2(n - 1)

\* first reading of time.time(): any positive number; 0 is the code's
\* "never attempted" marker (mqtt_comms.py:16)
T0 == 1

RECURSIVE RetryInstant(_)
RetryInstant(k) ==
    IF k = 0 THEN T0
    ELSE RetryInstant(k - 1) + Min(2 ^ k, _max_backoff_seconds)

Instants ==
    UNION { {RetryInstant(k) - 1, RetryInstant(k)} : k \in 0 .. MaxRetries } \ {0}

VARIABLES
    now,                        \* value time.time() returns
    _last_connection_attempt,   \* mqtt_comms.py:16
    _connection_failures,       \* mqtt_comms.py:17
    pc,                         \* pc[p]: where caller p's coroutine is suspended
    conn,                       \* conn[p]: caller p holds an open aiomqtt.Client
    sent,                       \* sent[p]: the broker took the payload of p's call
    result,                     \* result[p]: what p's call returned
    log,                        \* log[p]: the log line p's call wrote
    value,                      \* value[p]: the number in that log line / returned
    rr_pc,                      \* where send_message_and_wait_for_response is
    rr_args,                    \* its arguments action_id, timeout_seconds, logger
    rr_conn,                    \* its aiomqtt.Client is connected
    rr_subscribed,              \* the broker holds its subscription to response_topic
    rr_commanded,               \* the broker took its command on command_topic
    rr_arrived,                 \* messages the broker routed to it, in order
    rr_cursor,                  \* how many of them `async for` has handed out
    rr_deadline,                \* when asyncio.timeout(timeout_seconds) expires
    rr_result,                  \* what the call returned
    rr_log,                     \* the warning or error the call logged last
    rr_started,                 \* clock reading when the call was made
    rr_wait_from,               \* clock reading when the wait of line 87 began
    l_pc,                       \* where the setup_mqtt_listener generator is
    connection_failures,        \* its local of line 178
    last_connection_attempt,    \* its local of line 179
    l_conn,                     \* its aiomqtt.Client is connected
    l_wake,                     \* when its asyncio.sleep ends
    l_received,                 \* messages client.messages handed to it, in order
    l_emitted,                  \* payloads it yielded to its consumer, in order
    l_fault_at,                 \* clock reading when its last fault was raised
    l_fault_kind,               \* class of the exception its except clause holds
    l_cancelled,                \* where it was suspended when it was cancelled
    cc_pc,                      \* where check_connection is
    cc_conn,                    \* its aiomqtt.Client is connected
    cc_result,                  \* what the call returned
    cc_log,                     \* the line it logged
    mc_state,                   \* an MQTTConfig object exists / its constructor raised
    mc_arg,                     \* the port argument given to the constructor
    mc_port,                    \* the port field of the object
    mc_err,                     \* the exception raised last on the object
    mc_used,                    \* the operation that made a client from the object
    tc_config,                  \* the TelemetryConfig object
    tc_call,                    \* the topic function called last, and its argument
    tc_topic,                   \* the topic that call returned
    l2,                         \* a second setup_mqtt_listener generator: its locals
    db_pc,                      \* position of an access to DatabaseManager.connection
    db_connection,              \* DatabaseManager._connection
    db_frames,                  \* `retries` of each active frame of the getter
    db_tries,                   \* outcome of each sqlite3 attempt of this access
    db_result,                  \* what the access gave its caller
    fw_pc,                      \* position of FirmwareUpdater.update
    fw_args,                    \* target_tag, force_update, current_version
    fw_head,                    \* what the working tree has checked out
    fw_backup,                  \* the commit the backup tag of this update names
    fw_rollback,                \* the reference rollback() checked out last
    fw_versions,                \* rows of firmware_status added by this update
    fw_result,                  \* what update() gave its caller
    mg_pc,                      \* position of DatabaseMigrator.migrate_to_latest
    mg_table,                   \* the table schema_version exists
    mg_rows,                    \* rows of schema_version, committed
    mg_done,                    \* migration statements that are committed
    mg_txn,                     \* statements and rows of the open transaction
    mg_current_version,         \* local of migrate_to_latest
    mg_at,                      \* the migration and the statement being applied
    mg_result,                  \* what migrate_to_latest gave its caller
    mg_runs                     \* number of runs made

pubvars == << _last_connection_attempt, _connection_failures, pc, conn, sent,
              result, log, value >>

lsvars == << l_pc, connection_failures, last_connection_attempt, l_conn,
             l_wake, l_received, l_emitted, l_fault_at, l_fault_kind,
             l_cancelled >>

ccvars == << cc_pc, cc_conn, cc_result, cc_log >>

cfgvars == << mc_state, mc_arg, mc_port, mc_err, mc_used, tc_config, tc_call,
              tc_topic >>

l2vars == << l2 >>

dbvars == << db_pc, db_connection, db_frames, db_tries, db_result >>

fwvars == << fw_pc, fw_args, fw_head, fw_backup, fw_rollback, fw_versions,
             fw_result >>

mgvars == << mg_pc, mg_table, mg_rows, mg_done, mg_txn, mg_current_version, mg_at,
             mg_result, mg_runs >>

\* the second listener and the components outside mqtt_comms.py
othervars == << l2vars, dbvars, fwvars, mgvars >>

\* what the publisher's steps leave alone
notPublisher == << rr_pc, rr_args, rr_conn, rr_subscribed, rr_commanded,
                   rr_arrived, rr_cursor, rr_deadline, rr_result, rr_log,
                   rr_started, rr_wait_from, lsvars, ccvars, cfgvars, othervars >>

\* what the steps of an exchange leave alone
notExchange == << now, pubvars, lsvars, ccvars, cfgvars, othervars >>

rrvars == << rr_pc, rr_args, rr_conn, rr_subscribed, rr_commanded, rr_arrived,
             rr_cursor, rr_deadline, rr_result, rr_log, rr_started,
             rr_wait_from >>

\* what the listener's steps leave alone
notListener == << now, pubvars, rrvars, ccvars, cfgvars, othervars >>

\* what the steps of check_connection leave alone
notCheck == << now, pubvars, rrvars, lsvars, cfgvars, othervars >>

\* what the steps on the configuration objects leave alone
notConfig == << now, pubvars, rrvars, lsvars, ccvars, othervars >>

\* what the steps of the second listener leave alone
notL2 == << now, pubvars, rrvars, lsvars, ccvars, cfgvars, dbvars, fwvars,
            mgvars >>

\* what the steps of the database manager leave alone
notDb == << now, pubvars, rrvars, lsvars, ccvars, cfgvars, l2vars, fwvars,
            mgvars >>

\* what the steps of the firmware updater leave alone
notFw == << now, pubvars, rrvars, lsvars, ccvars, cfgvars, l2vars, dbvars,
            mgvars >>

\* what the steps of the database migrator leave alone
notMg == << now, pubvars, rrvars, lsvars, ccvars, cfgvars, l2vars, dbvars,
            fwvars >>

(* ---------------------------------------------------------------------- *)
(* _get_backoff_time, mqtt_comms.py:25-33; the global it reads is the      *)
(* parameter                                                               *)
(* ---------------------------------------------------------------------- *)

\* mutant: the cap is missing
GetBackoffTimeNoCap(failures) ==
    IF failures = 0 THEN 0 ELSE Pow2(failures)

_get_backoff_time(failures) ==
    IF failures = 0
    THEN 0
    ELSE Min(Pow2(failures), _max_backoff_seconds)

(* ---------------------------------------------------------------------- *)
(* _should_attempt_connection, mqtt_comms.py:36-52; the globals and the    *)
(* clock reading of line 45 are the parameters                             *)
(* ---------------------------------------------------------------------- *)

\* mutant: strict comparison
ShouldAttemptStrict(last, failures, current_time) ==
    IF last = 0 \/ failures = 0
    THEN TRUE
    ELSE (current_time - last) > _get_backoff_time(failures)

\* mutant: the backoff is not consulted
ShouldAttemptAlways(last, failures, current_time) == TRUE

_should_attempt_connection(last, failures, current_time) ==
    IF last = 0 \/ failures = 0
    THEN TRUE
    ELSE LET time_since_last_attempt == current_time - last
             backoff_time == _get_backoff_time(failures)
         IN  time_since_last_attempt >= backoff_time

(* ---------------------------------------------------------------------- *)
(* publish_payload, mqtt_comms.py:117-157                                  *)
(* ---------------------------------------------------------------------- *)

\* mutant: the clause catches aiomqtt.MqttError only
PublishExceptMqttOnly(p, kind) ==
    IF kind = "MqttError"
    THEN /\ _connection_failures' = _connection_failures + 1
         /\ log' = [log EXCEPT ![p] =
                      IF _connection_failures' = 1 THEN "warning"
                      ELSE IF _connection_failures' % 10 = 0 THEN "error"
                      ELSE "none"]
         /\ value' = [value EXCEPT ![p] =
                        _get_backoff_time(_connection_failures')]
         /\ result' = [result EXCEPT ![p] = "False"]
    ELSE /\ result' = [result EXCEPT ![p] = "raised"]
         /\ UNCHANGED << _connection_failures, log, value >>

\* lines 145-157: `except Exception` around connect, publish and disconnect.
\* The handler has no await: it runs in the step in which the fault is raised.
\* A fault the clause does not catch leaves the call as an exception.
PublishExcept(p, kind) ==
    IF kind \in ExceptionSubclasses
    THEN LET n == _connection_failures + 1
             backoff_time == _get_backoff_time(n)
         IN  /\ _connection_failures' = n
             /\ log' = [log EXCEPT ![p] =
                          IF n = 1 THEN "warning"
                          ELSE IF n % 10 = 0 THEN "error" ELSE "none"]
             /\ value' = [value EXCEPT ![p] = backoff_time]
             /\ result' = [result EXCEPT ![p] = "False"]
    ELSE /\ result' = [result EXCEPT ![p] = "raised"]
         /\ UNCHANGED << _connection_failures, log, value >>

\* lines 160-170 and 256-265: the two functions that publish, each a call of
\* publish_payload with its own topic; a caller of the model stands for one
PathOf(p) ==
    IF p = "c1" THEN "upload_telemetry_data_mqtt"
                ELSE "upload_command_response"

\* mutant: the attempt time is never recorded
PublishStartNoRecord(p) ==
    /\ pc[p] = "idle"
    /\ IF ~ _should_attempt_connection(_last_connection_attempt,
                                       _connection_failures, now)
       THEN /\ log' = [log EXCEPT ![p] = "info_skip"]
            /\ value' = [value EXCEPT ![p] =
                            _get_backoff_time(_connection_failures)]
            /\ result' = [result EXCEPT ![p] = "False"]
            /\ pc' = [pc EXCEPT ![p] = "done"]
       ELSE /\ pc' = [pc EXCEPT ![p] = "connect"]
            /\ UNCHANGED << log, value, result >>
    /\ UNCHANGED << now, _last_connection_attempt, _connection_failures, conn,
                    sent >>
    /\ UNCHANGED notPublisher

\* mutant: a skipped call records the attempt time too
PublishStartRecordsSkip(p) ==
    /\ pc[p] = "idle"
    /\ IF ~ _should_attempt_connection(_last_connection_attempt,
                                       _connection_failures, now)
       THEN /\ log' = [log EXCEPT ![p] = "info_skip"]
            /\ value' = [value EXCEPT ![p] =
                            _get_backoff_time(_connection_failures)]
            /\ result' = [result EXCEPT ![p] = "False"]
            /\ pc' = [pc EXCEPT ![p] = "done"]
       ELSE /\ pc' = [pc EXCEPT ![p] = "connect"]
            /\ UNCHANGED << log, value, result >>
    /\ _last_connection_attempt' = now
    /\ UNCHANGED << now, _connection_failures, conn, sent >>
    /\ UNCHANGED notPublisher

\* lines 119-127: the backoff check and the record of the attempt time; the
\* awaited _should_attempt_connection never suspends
PublishStart(p) ==
    /\ pc[p] = "idle"
    /\ IF ~ _should_attempt_connection(_last_connection_attempt,
                                       _connection_failures, now)
       THEN /\ log' = [log EXCEPT ![p] = "info_skip"]
            /\ value' = [value EXCEPT ![p] =
                            _get_backoff_time(_connection_failures)]
            /\ result' = [result EXCEPT ![p] = "False"]
            /\ pc' = [pc EXCEPT ![p] = "done"]
            /\ UNCHANGED _last_connection_attempt
       ELSE /\ _last_connection_attempt' = now
            /\ pc' = [pc EXCEPT ![p] = "connect"]
            /\ UNCHANGED << log, value, result >>
    /\ UNCHANGED << now, _connection_failures, conn, sent >>
    /\ UNCHANGED notPublisher

\* lines 130-135: aiomqtt.Client.__aenter__ connects, or raises
PublishConnect(p) ==
    /\ pc[p] = "connect"
    /\ \/ /\ conn' = [conn EXCEPT ![p] = TRUE]
          /\ pc' = [pc EXCEPT ![p] = "publish"]
          /\ UNCHANGED << _connection_failures, result, log, value >>
       \/ /\ _connection_failures < MaxFailures
          /\ \E kind \in FaultKinds : PublishExcept(p, kind)
          /\ pc' = [pc EXCEPT ![p] = "done"]
          /\ UNCHANGED conn
    /\ UNCHANGED << now, _last_connection_attempt, sent >>
    /\ UNCHANGED notPublisher

\* line 137: client.publish(..., qos=1) completes, or raises; a fault leaves
\* the `async with` block, whose __aexit__ closes the connection
PublishSend(p) ==
    /\ pc[p] = "publish"
    /\ \/ /\ sent' = [sent EXCEPT ![p] = TRUE]
          /\ pc' = [pc EXCEPT ![p] = "close"]
          /\ UNCHANGED << _connection_failures, conn, result, log, value >>
       \/ /\ _connection_failures < MaxFailures
          /\ \E kind \in FaultKinds : PublishExcept(p, kind)
          /\ conn' = [conn EXCEPT ![p] = FALSE]
          /\ pc' = [pc EXCEPT ![p] = "done"]
          /\ UNCHANGED sent
    /\ UNCHANGED << now, _last_connection_attempt >>
    /\ UNCHANGED notPublisher

\* mutant: the failure count is not reset
PublishSucceededNoReset(p) ==
    /\ IF _connection_failures > 0
       THEN /\ log' = [log EXCEPT ![p] = "info_restored"]
            /\ value' = [value EXCEPT ![p] = _connection_failures]
       ELSE UNCHANGED << log, value >>
    /\ UNCHANGED _connection_failures
    /\ result' = [result EXCEPT ![p] = "True"]

\* lines 139-144: what follows the `async with` block when it ended normally
PublishSucceeded(p) ==
    /\ IF _connection_failures > 0
       THEN /\ log' = [log EXCEPT ![p] = "info_restored"]
            /\ value' = [value EXCEPT ![p] = _connection_failures]
            /\ _connection_failures' = 0
       ELSE UNCHANGED << log, value, _connection_failures >>
    /\ result' = [result EXCEPT ![p] = "True"]

\* line 135 (end of the block): __aexit__ disconnects, or raises, and the
\* connection is gone either way
PublishClose(p) ==
    /\ pc[p] = "close"
    /\ conn' = [conn EXCEPT ![p] = FALSE]
    /\ pc' = [pc EXCEPT ![p] = "done"]
    /\ \/ PublishSucceeded(p)
       \/ /\ _connection_failures < MaxFailures
          /\ \E kind \in FaultKinds : PublishExcept(p, kind)
    /\ UNCHANGED << now, _last_connection_attempt, sent >>
    /\ UNCHANGED notPublisher

\* a direct call of _get_backoff_time() (lines 25-33)
GetBackoffTimeCall(p) ==
    /\ pc[p] = "idle"
    /\ result' = [result EXCEPT ![p] = "backoff"]
    /\ value' = [value EXCEPT ![p] = _get_backoff_time(_connection_failures)]
    /\ pc' = [pc EXCEPT ![p] = "done"]
    /\ UNCHANGED << now, _last_connection_attempt, _connection_failures, conn,
                    sent, log >>
    /\ UNCHANGED notPublisher

\* a direct call of _should_attempt_connection() (lines 36-52)
ShouldAttemptCall(p) ==
    /\ pc[p] = "idle"
    /\ result' = [result EXCEPT ![p] =
                     IF _should_attempt_connection(_last_connection_attempt,
                                                   _connection_failures, now)
                     THEN "attempt" ELSE "no_attempt"]
    /\ pc' = [pc EXCEPT ![p] = "done"]
    /\ UNCHANGED << now, _last_connection_attempt, _connection_failures, conn,
                    sent, log, value >>
    /\ UNCHANGED notPublisher

\* the caller has the result and may call again
Return(p) ==
    /\ pc[p] = "done"
    /\ pc' = [pc EXCEPT ![p] = "idle"]
    /\ result' = [result EXCEPT ![p] = "none"]
    /\ log' = [log EXCEPT ![p] = "none"]
    /\ value' = [value EXCEPT ![p] = 0]
    /\ sent' = [sent EXCEPT ![p] = FALSE]
    /\ UNCHANGED << now, _last_connection_attempt, _connection_failures, conn >>
    /\ UNCHANGED notPublisher

\* the task that runs the call is cancelled at one of its awaits (lines
\* 130-137): the clause of line 145 does not catch CancelledError, the
\* `async with` block closes the connection and the exception leaves the call
PublishCancel(p) ==
    /\ pc[p] \in {"connect", "publish", "close"}
    /\ PublishExcept(p, "CancelledError")
    /\ conn' = [conn EXCEPT ![p] = FALSE]
    /\ pc' = [pc EXCEPT ![p] = "done"]
    /\ UNCHANGED << now, _last_connection_attempt, sent >>
    /\ UNCHANGED notPublisher

(* ---------------------------------------------------------------------- *)
(* send_message_and_wait_for_response, mqtt_comms.py:55-115                *)
(* ---------------------------------------------------------------------- *)

\* line 61: timeout_seconds: int = 30
DefaultTimeout == 30

\* the timeouts a caller passes
TimeoutChoices == {5, DefaultTimeout}

\* at most this many messages arrive on the response topic during one call
MaxMessages == 2

\* action ids a caller passes and a response may carry
ActionIds == {"a1", "a2"}

\* what dict.get('action_id') gives for a JSON object without that key
None == "None"

\* line 60: what a caller passes as action_id; the annotation `str` is not
\* enforced, so None is among them
ActionIdArgs == ActionIds \cup {None}

\* payloads that arrive on the response topic:
\*   object    - JSON text of an object; action_id is what .get('action_id')
\*               gives for it (None when the key is missing)
\*   array     - JSON text of a value that is no object (it has no .get)
\*   malformed - text that is not JSON
Payloads ==
    [kind : {"object"}, action_id : ActionIds \cup {None}]
    \cup { [kind |-> "array", action_id |-> None],
           [kind |-> "malformed", action_id |-> None] }

\* the call has not returned / returned None / raised to its caller
Pending == [kind |-> "pending", action_id |-> None]
NoResponse == [kind |-> "None", action_id |-> None]
Raised == [kind |-> "raised", action_id |-> None]

NoArgs == [action_id |-> None, timeout_seconds |-> 0, logger |-> FALSE]

\* lines 89-107, one pass of the loop body: "return" when line 99 is reached,
\* "continue" when the message is passed over (line 101, or one of the two
\* except clauses of lines 104-107), "raise" when an exception leaves the body
\* (none does: the clause of line 106 catches every Exception)
\* mutant: the action_id is not compared
OnMessageNoCompare(m, action_id) ==
    IF m.kind = "object" THEN "return" ELSE "continue"

\* mutant: json.JSONDecodeError is not caught inside the loop
OnMessageDecodeErrorRaises(m, action_id) ==
    IF m.kind = "malformed" THEN "raise"
    ELSE IF m.kind = "array" THEN "continue"
    ELSE IF m.action_id = action_id THEN "return" ELSE "continue"

OnMessage(m, action_id) ==
    IF m.kind = "malformed" THEN "continue"        \* json.JSONDecodeError
    ELSE IF m.kind = "array" THEN "continue"       \* AttributeError: no .get
    ELSE LET response_action_id == m.action_id
         IN  IF response_action_id = action_id THEN "return" ELSE "continue"

\* bound: how many stalls the clock of an exchange counts
MaxStalls == 4

\* bound: seconds one stalled await takes
StallStep == 10

\* the clock readings at which an exchange is called or one of its awaits
\* completes
ExchangeInstants == { T0 + k * StallStep : k \in 0..MaxStalls }

\* lines 113-115: `except Exception` around the whole exchange; logger.error
\* itself raises AttributeError when the logger argument was left at None,
\* and that exception leaves the call
SendExcept ==
    IF rr_args.logger
    THEN rr_result' = NoResponse /\ rr_log' = "error"
    ELSE rr_result' = Raised /\ UNCHANGED rr_log

\* the call: lines 55-66, up to the first await
SendCall ==
    /\ rr_pc = "idle"
    /\ now \in ExchangeInstants
    /\ \E a \in ActionIdArgs, t \in TimeoutChoices, lg \in BOOLEAN :
          rr_args' = [action_id |-> a, timeout_seconds |-> t, logger |-> lg]
    /\ rr_pc' = "connect"
    /\ rr_started' = now
    /\ UNCHANGED << rr_conn, rr_subscribed, rr_commanded, rr_arrived,
                    rr_cursor, rr_deadline, rr_result, rr_log, rr_wait_from >>
    /\ UNCHANGED notExchange

\* lines 66-73: __aenter__ connects, or raises
SendConnect ==
    /\ rr_pc = "connect"
    /\ \/ /\ rr_conn' = TRUE
          /\ rr_pc' = "subscribe"
          /\ UNCHANGED << rr_result, rr_log >>
       \/ /\ SendExcept
          /\ rr_pc' = "done"
          /\ UNCHANGED rr_conn
    /\ UNCHANGED << rr_args, rr_subscribed, rr_commanded, rr_arrived,
                    rr_cursor, rr_deadline, rr_started, rr_wait_from >>
    /\ UNCHANGED notExchange

\* mutant: a failed subscribe is passed over
SendSubscribeIgnoresFault ==
    /\ rr_pc = "subscribe"
    /\ rr_args.logger
    /\ rr_subscribed' \in BOOLEAN
    /\ rr_pc' = "publish"
    /\ UNCHANGED << rr_conn, rr_result, rr_log >>
    /\ UNCHANGED << rr_args, rr_commanded, rr_arrived, rr_cursor, rr_deadline,
                    rr_started, rr_wait_from >>
    /\ UNCHANGED notExchange

\* lines 76-77: subscribe completes, or raises; logger.info raises when the
\* logger is None.  Leaving the block by an exception closes the connection,
\* and the broker drops the subscription of the clean session with it.
SendSubscribe ==
    /\ rr_pc = "subscribe"
    /\ \/ /\ rr_args.logger
          /\ rr_subscribed' = TRUE
          /\ rr_pc' = "publish"
          /\ UNCHANGED << rr_conn, rr_result, rr_log >>
       \/ /\ SendExcept
          /\ rr_subscribed' = FALSE
          /\ rr_conn' = FALSE
          /\ rr_pc' = "done"
    /\ UNCHANGED << rr_args, rr_commanded, rr_arrived, rr_cursor, rr_deadline,
                    rr_started, rr_wait_from >>
    /\ UNCHANGED notExchange

\* mutant: the deadline is counted in another unit (twice as long)
SendPublishLongDeadline ==
    /\ rr_pc = "publish"
    /\ rr_commanded' = TRUE
    /\ rr_deadline' = now + 2 * rr_args.timeout_seconds
    /\ rr_wait_from' = now
    /\ rr_pc' = "wait"
    /\ UNCHANGED << rr_conn, rr_subscribed, rr_result, rr_log >>
    /\ UNCHANGED << rr_args, rr_arrived, rr_cursor, rr_started >>
    /\ UNCHANGED notExchange

\* lines 80-88: the command is published, or publish raises; then the
\* timeout is armed and the coroutine waits for the first message
SendPublish ==
    /\ rr_pc = "publish"
    /\ \/ /\ rr_commanded' = TRUE
          /\ rr_deadline' = now + rr_args.timeout_seconds
          /\ rr_wait_from' = now
          /\ rr_pc' = "wait"
          /\ UNCHANGED << rr_conn, rr_subscribed, rr_result, rr_log >>
       \/ /\ SendExcept
          /\ rr_subscribed' = FALSE
          /\ rr_conn' = FALSE
          /\ rr_pc' = "done"
          /\ UNCHANGED << rr_commanded, rr_deadline, rr_wait_from >>
    /\ UNCHANGED << rr_args, rr_arrived, rr_cursor, rr_started >>
    /\ UNCHANGED notExchange

\* lines 88-107: `async for` hands out the next message and the loop body
\* runs.  `return response_data` leaves the `async with` block, whose
\* __aexit__ disconnects; if that raises, line 113 catches it and the call
\* returns None instead.
SendReceive ==
    /\ rr_pc = "wait"
    /\ rr_cursor < Len(rr_arrived)
    /\ rr_cursor' = rr_cursor + 1
    /\ LET mqtt_message == rr_arrived[rr_cursor + 1]
           outcome == OnMessage(mqtt_message, rr_args.action_id)
       IN  IF outcome = "continue"
           THEN UNCHANGED << rr_pc, rr_conn, rr_subscribed, rr_result, rr_log >>
           ELSE /\ rr_pc' = "done"
                /\ rr_conn' = FALSE
                /\ rr_subscribed' = FALSE
                /\ IF outcome = "return"
                   THEN \/ rr_result' = mqtt_message /\ UNCHANGED rr_log
                        \/ SendExcept
                   ELSE SendExcept
    /\ UNCHANGED << rr_args, rr_commanded, rr_arrived, rr_deadline, rr_started,
                    rr_wait_from >>
    /\ UNCHANGED notExchange

\* mutant: the client is not closed when the timeout ends the call
SendTimeoutLeavesOpen ==
    /\ rr_pc = "wait"
    /\ now >= rr_deadline
    /\ rr_result' = NoResponse
    /\ rr_log' = "timeout"
    /\ rr_pc' = "done"
    /\ UNCHANGED << rr_conn, rr_subscribed >>
    /\ UNCHANGED << rr_args, rr_commanded, rr_arrived, rr_cursor, rr_deadline,
                    rr_started, rr_wait_from >>
    /\ UNCHANGED notExchange

\* lines 109-111: the timeout expires while the coroutine waits for a
\* message; the warning is logged and `return None` leaves the block, which
\* closes the connection
SendTimeout ==
    /\ rr_pc = "wait"
    /\ now >= rr_deadline
    /\ rr_result' = NoResponse
    /\ rr_log' = "timeout"
    /\ rr_pc' = "done"
    /\ rr_conn' = FALSE
    /\ rr_subscribed' = FALSE
    /\ UNCHANGED << rr_args, rr_commanded, rr_arrived, rr_cursor, rr_deadline,
                    rr_started, rr_wait_from >>
    /\ UNCHANGED notExchange

\* line 88: client.messages raises MqttError (the connection was lost); only
\* the clause of line 113 catches it
SendStreamFault ==
    /\ rr_pc = "wait"
    /\ SendExcept
    /\ rr_pc' = "done"
    /\ rr_conn' = FALSE
    /\ rr_subscribed' = FALSE
    /\ UNCHANGED << rr_args, rr_commanded, rr_arrived, rr_cursor, rr_deadline,
                    rr_started, rr_wait_from >>
    /\ UNCHANGED notExchange

\* the broker routes a message published on response_topic to the client
Deliver ==
    /\ rr_subscribed
    /\ Len(rr_arrived) < MaxMessages
    /\ \E m \in Payloads : rr_arrived' = Append(rr_arrived, m)
    /\ UNCHANGED << rr_pc, rr_args, rr_conn, rr_subscribed, rr_commanded,
                    rr_cursor, rr_deadline, rr_result, rr_log, rr_started,
                    rr_wait_from >>
    /\ UNCHANGED notExchange

\* the caller has the result and may call again
SendReturn ==
    /\ rr_pc = "done"
    /\ rr_pc' = "idle"
    /\ rr_args' = NoArgs
    /\ rr_commanded' = FALSE
    /\ rr_arrived' = << >>
    /\ rr_cursor' = 0
    /\ rr_deadline' = 0
    /\ rr_result' = Pending
    /\ rr_log' = "none"
    /\ rr_started' = 0
    /\ rr_wait_from' = 0
    /\ UNCHANGED << rr_conn, rr_subscribed >>
    /\ UNCHANGED notExchange

\* the task that runs the exchange is cancelled at one of its awaits:
\* neither the clause of line 106 nor that of line 113 catches
\* CancelledError, asyncio.timeout passes on a cancellation that is not its
\* own, the `async with` block closes the connection and the exception
\* leaves the call
SendCancel ==
    /\ rr_pc \in {"connect", "subscribe", "publish", "wait"}
    /\ rr_result' = Raised
    /\ rr_pc' = "done"
    /\ rr_conn' = FALSE
    /\ rr_subscribed' = FALSE
    /\ UNCHANGED << rr_args, rr_commanded, rr_arrived, rr_cursor, rr_deadline,
                    rr_log, rr_started, rr_wait_from >>
    /\ UNCHANGED notExchange

(* ---------------------------------------------------------------------- *)
(* setup_mqtt_listener, mqtt_comms.py:173-253                              *)
(* ---------------------------------------------------------------------- *)

\* line 180
max_backoff == 300

\* line 193: a backoff sleep is cut into slices of at most this many seconds
SleepSlice == 10

\* line 245 and line 253: the pause after an MqttError / any other exception
MqttErrorPause == 1
UnexpectedErrorPause == 5

\* payloads that arrive on messages_topic: two JSON documents and a text
\* that is not JSON
ListenerPayloads ==
    { m \in Payloads : m.kind = "malformed"
                          \/ (m.kind = "object" /\ m.action_id \in ActionIds) }

\* asyncio.CancelledError (the consumer's task is cancelled) and
\* GeneratorExit (the consumer closes the generator at the yield): both
\* derive from BaseException, not from Exception
Cancellations == {"CancelledError", "GeneratorExit"}

\* the awaits and the yield at which the generator is suspended
SuspensionPoints ==
    {"backoff_wait", "connect", "subscribe", "connected", "yielded", "pause"}

\* the generator has not been cancelled
NotCancelled == "no"

\* mutant: the cap is missing
ListenerBackoffTimeNoCap(failures) ==
    IF failures > 0 THEN Pow2(failures) ELSE 0

\* lines 185-188
ListenerBackoffTime(failures) ==
    IF failures > 0 THEN Min(Pow2(failures), max_backoff) ELSE 0

\* mutant: the backoff is not consulted before an attempt
ListenerNeverWaits(last, failures, current_time) == FALSE

\* mutant: the loop still waits at the instant the backoff time has passed
ListenerMustWaitAtBoundary(last, failures, current_time) ==
    LET backoff_time == ListenerBackoffTime(failures)
        time_since_last_attempt == current_time - last
    IN  last > 0 /\ time_since_last_attempt <= backoff_time

\* lines 190-192: the test that sends the loop to sleep instead of connecting
ListenerMustWait(last, failures, current_time) ==
    LET backoff_time == ListenerBackoffTime(failures)
        time_since_last_attempt == current_time - last
    IN  last > 0 /\ time_since_last_attempt < backoff_time

\* mutant: the sleep is not cut into slices
ListenerLoopSleepsWhole ==
    /\ l_pc = "top"
    /\ LET current_time == now
       IN  IF ListenerMustWait(last_connection_attempt, connection_failures,
                               current_time)
           THEN LET wait_time ==
                      ListenerBackoffTime(connection_failures)
                        - (current_time - last_connection_attempt)
                IN  /\ l_wake' = current_time + wait_time
                    /\ l_pc' = "backoff_wait"
                    /\ UNCHANGED last_connection_attempt
           ELSE /\ last_connection_attempt' = current_time
                /\ l_pc' = "connect"
                /\ UNCHANGED l_wake
    /\ UNCHANGED << connection_failures, l_conn, l_received, l_emitted,
                    l_fault_at, l_fault_kind,
                    l_cancelled >>
    /\ UNCHANGED notListener

\* lines 182-199: the top of the loop, up to the sleep or the connect
ListenerLoop ==
    /\ l_pc = "top"
    /\ LET current_time == now
       IN  IF ListenerMustWait(last_connection_attempt, connection_failures,
                               current_time)
           THEN LET wait_time ==
                      Min(ListenerBackoffTime(connection_failures)
                            - (current_time - last_connection_attempt),
                          SleepSlice)
                IN  /\ l_wake' = current_time + wait_time
                    /\ l_pc' = "backoff_wait"
                    /\ UNCHANGED last_connection_attempt
           ELSE /\ last_connection_attempt' = current_time
                /\ l_pc' = "connect"
                /\ UNCHANGED l_wake
    /\ UNCHANGED << connection_failures, l_conn, l_received, l_emitted,
                    l_fault_at, l_fault_kind,
                    l_cancelled >>
    /\ UNCHANGED notListener

\* lines 195-196, 245, 253: asyncio.sleep returns, not before its time; the
\* except clause, if the sleep was in one, ends and unbinds its exception;
\* the loop starts over
ListenerWake ==
    /\ l_pc \in {"backoff_wait", "pause"}
    /\ now >= l_wake
    /\ l_pc' = "top"
    /\ l_fault_kind' = "none"
    /\ UNCHANGED << connection_failures, last_connection_attempt, l_conn,
                    l_wake, l_received, l_emitted, l_fault_at, l_cancelled >>
    /\ UNCHANGED notListener

\* mutant: the second clause is a bare `except:`
ListenerExceptCatchesAll(kind) ==
    /\ connection_failures' = connection_failures + 1
    /\ l_wake' = now + (IF kind = "MqttError" THEN MqttErrorPause
                                               ELSE UnexpectedErrorPause)
    /\ l_fault_at' = now
    /\ l_fault_kind' = kind
    /\ l_pc' = "pause"

\* mutant: only the MqttError clause counts the failure
ListenerExceptCountsMqttOnly(kind) ==
    IF kind \in ExceptionSubclasses
    THEN /\ connection_failures' =
               connection_failures + (IF kind = "MqttError" THEN 1 ELSE 0)
         /\ l_wake' = now + (IF kind = "MqttError" THEN MqttErrorPause
                                                    ELSE UnexpectedErrorPause)
         /\ l_fault_at' = now
         /\ l_fault_kind' = kind
         /\ l_pc' = "pause"
    ELSE /\ l_pc' = "ended"
         /\ UNCHANGED << connection_failures, l_wake, l_fault_at, l_fault_kind >>

\* mutant: the generator logs the fault and ends (no retry loop)
ListenerExceptGivesUp(kind) ==
    /\ connection_failures' = connection_failures + 1
    /\ l_fault_at' = now
    /\ l_fault_kind' = kind
    /\ l_pc' = "ended"
    /\ UNCHANGED l_wake

\* mutant: both clauses pause for one second
ListenerExceptSamePause(kind) ==
    IF kind \in ExceptionSubclasses
    THEN /\ connection_failures' = connection_failures + 1
         /\ l_wake' = now + MqttErrorPause
         /\ l_fault_at' = now
         /\ l_fault_kind' = kind
         /\ l_pc' = "pause"
    ELSE /\ l_pc' = "ended"
         /\ UNCHANGED << connection_failures, l_wake, l_fault_at, l_fault_kind >>

\* lines 232-253: the two except clauses; both count the failure, they differ
\* in the pause.  An exception neither clause catches leaves the generator,
\* which ends with it.
ListenerExcept(kind) ==
    IF kind \in ExceptionSubclasses
    THEN /\ connection_failures' = connection_failures + 1
         /\ l_wake' = now + (IF kind = "MqttError" THEN MqttErrorPause
                                                    ELSE UnexpectedErrorPause)
         /\ l_fault_at' = now
         /\ l_fault_kind' = kind
         /\ l_pc' = "pause"
    ELSE /\ l_pc' = "ended"
         /\ UNCHANGED << connection_failures, l_wake, l_fault_at, l_fault_kind >>

\* mutant: the failure count is reset as soon as the connection is open
ListenerConnectResets ==
    /\ l_pc = "connect"
    /\ \/ /\ l_conn' = TRUE
          /\ l_pc' = "subscribe"
          /\ connection_failures' = 0
          /\ UNCHANGED << l_wake, l_fault_at, l_fault_kind >>
       \/ /\ connection_failures < MaxFailures
          /\ \E kind \in FaultKinds : ListenerExcept(kind)
          /\ UNCHANGED l_conn
    /\ UNCHANGED << last_connection_attempt, l_received, l_emitted,
                    l_cancelled >>
    /\ UNCHANGED notListener

\* lines 203-211: __aenter__ connects, or raises
ListenerConnect ==
    /\ l_pc = "connect"
    /\ \/ /\ l_conn' = TRUE
          /\ l_pc' = "subscribe"
          /\ UNCHANGED << connection_failures, l_wake, l_fault_at, l_fault_kind >>
       \/ /\ connection_failures < MaxFailures
          /\ \E kind \in FaultKinds : ListenerExcept(kind)
          /\ UNCHANGED l_conn
    /\ UNCHANGED << last_connection_attempt, l_received, l_emitted,
                    l_cancelled >>
    /\ UNCHANGED notListener

\* mutant: the failure count is not reset when the connection is up
ListenerSubscribeNoReset ==
    /\ l_pc = "subscribe"
    /\ l_pc' = "connected"
    /\ UNCHANGED << connection_failures, l_conn, l_wake, l_fault_at, l_fault_kind >>
    /\ UNCHANGED << last_connection_attempt, l_received, l_emitted,
                    l_cancelled >>
    /\ UNCHANGED notListener

\* lines 213-220: subscribe completes and the failure count is reset, or
\* subscribe raises and the connection is closed on the way out of the block
ListenerSubscribe ==
    /\ l_pc = "subscribe"
    /\ \/ /\ connection_failures' = 0
          /\ l_pc' = "connected"
          /\ UNCHANGED << l_conn, l_wake, l_fault_at, l_fault_kind >>
       \/ /\ connection_failures < MaxFailures
          /\ \E kind \in FaultKinds : ListenerExcept(kind)
          /\ l_conn' = FALSE
    /\ UNCHANGED << last_connection_attempt, l_received, l_emitted,
                    l_cancelled >>
    /\ UNCHANGED notListener

\* mutant: the decode error is not caught inside the loop; it reaches the
\* clause of line 247 and the connection is dropped
ListenerMessageDecodeErrorEscapes ==
    /\ l_pc = "connected"
    /\ Len(l_received) < MaxMessages
    /\ \E message \in ListenerPayloads :
          /\ l_received' = Append(l_received, message)
          /\ IF message.kind = "malformed"
             THEN /\ ListenerExcept("OSError")
                  /\ l_conn' = FALSE
                  /\ UNCHANGED l_emitted
             ELSE /\ l_emitted' = Append(l_emitted, message)
                  /\ l_pc' = "yielded"
                  /\ UNCHANGED << connection_failures, l_conn, l_wake,
                                  l_fault_at, l_fault_kind >>
    /\ UNCHANGED << last_connection_attempt, l_cancelled >>
    /\ UNCHANGED notListener

\* mutant: the payloads are buffered and handed out newest first
ListenerMessageNewestFirst ==
    /\ l_pc = "connected"
    /\ Len(l_received) < MaxMessages
    /\ \E message \in ListenerPayloads :
          /\ l_received' = Append(l_received, message)
          /\ IF message.kind = "malformed"
             THEN UNCHANGED << l_pc, l_emitted >>
             ELSE /\ l_emitted' = << message >> \o l_emitted
                  /\ l_pc' = "yielded"
    /\ UNCHANGED << connection_failures, last_connection_attempt, l_conn,
                    l_wake, l_fault_at, l_fault_kind,
                    l_cancelled >>
    /\ UNCHANGED notListener

\* lines 223-230: the next message; a payload that decodes is yielded to the
\* consumer, one that does not is logged and passed over
ListenerMessage ==
    /\ l_pc = "connected"
    /\ Len(l_received) < MaxMessages
    /\ \E message \in ListenerPayloads :
          /\ l_received' = Append(l_received, message)
          /\ IF message.kind = "malformed"
             THEN UNCHANGED << l_pc, l_emitted >>
             ELSE /\ l_emitted' = Append(l_emitted, message)
                  /\ l_pc' = "yielded"
    /\ UNCHANGED << connection_failures, last_connection_attempt, l_conn,
                    l_wake, l_fault_at, l_fault_kind,
                    l_cancelled >>
    /\ UNCHANGED notListener

\* line 226: the consumer asks for the next value and the generator resumes
ListenerResume ==
    /\ l_pc = "yielded"
    /\ l_pc' = "connected"
    /\ UNCHANGED << connection_failures, last_connection_attempt, l_conn,
                    l_wake, l_received, l_emitted, l_fault_at, l_fault_kind,
                    l_cancelled >>
    /\ UNCHANGED notListener

\* line 223: client.messages raises (the connection dropped); the block is
\* left and one of the except clauses runs
ListenerStreamFault ==
    /\ l_pc = "connected"
    /\ connection_failures < MaxFailures
    /\ \E kind \in FaultKinds : ListenerExcept(kind)
    /\ l_conn' = FALSE
    /\ UNCHANGED << last_connection_attempt, l_received, l_emitted,
                    l_cancelled >>
    /\ UNCHANGED notListener

\* line 223: the iterator client.messages ends without an exception; the
\* `async with` block is left, the connection closed, and `while True`
\* starts over with no pause and no failure counted
ListenerStreamEnd ==
    /\ l_pc = "connected"
    /\ l_pc' = "top"
    /\ l_conn' = FALSE
    /\ UNCHANGED << connection_failures, last_connection_attempt, l_wake,
                    l_received, l_emitted, l_fault_at, l_fault_kind,
                    l_cancelled >>
    /\ UNCHANGED notListener

\* the consumer cancels: CancelledError is raised at the await the generator
\* is suspended in, GeneratorExit at the yield.  The sleeps of lines 195, 245
\* and 253 are outside the try block or inside a handler, so no clause is
\* tried for them; at the other points the clauses of lines 228-230 and
\* 232-253 are tried.  Leaving the `async with` block closes the connection.
ListenerCancel ==
    /\ l_pc \in SuspensionPoints
    /\ l_cancelled' = l_pc
    /\ IF l_pc \in {"backoff_wait", "pause"}
       THEN /\ l_pc' = "ended"
            /\ UNCHANGED << connection_failures, l_wake, l_fault_at, l_fault_kind >>
       ELSE \E kind \in Cancellations :
               /\ (kind = "GeneratorExit") <=> (l_pc = "yielded")
               /\ ListenerExcept(kind)
    /\ l_conn' = FALSE
    /\ UNCHANGED << last_connection_attempt, l_received, l_emitted >>
    /\ UNCHANGED notListener

(* ---------------------------------------------------------------------- *)
(* check_connection, mqtt_comms.py:268-293                                 *)
(* ---------------------------------------------------------------------- *)

\* what connect or subscribe raise; ConnectionRefusedError derives from
\* OSError
CheckFaultKinds == FaultKinds \cup {"ConnectionRefusedError"}

\* mutant: the last clause, `except Exception`, is missing
CheckExceptNoCatchAll(kind) ==
    IF kind = "TimeoutError"
    THEN cc_result' = "False" /\ cc_log' = "timed_out"
    ELSE IF kind = "ConnectionRefusedError"
    THEN cc_result' = "False" /\ cc_log' = "refused"
    ELSE cc_result' = "raised" /\ UNCHANGED cc_log

\* lines 284-293: the three except clauses, tried in order; an exception
\* none of them catches leaves the call
CheckExcept(kind) ==
    IF kind = "TimeoutError"
    THEN cc_result' = "False" /\ cc_log' = "timed_out"
    ELSE IF kind = "ConnectionRefusedError"
    THEN cc_result' = "False" /\ cc_log' = "refused"
    ELSE IF kind \in ExceptionSubclasses
    THEN cc_result' = "False" /\ cc_log' = "failed"
    ELSE cc_result' = "raised" /\ UNCHANGED cc_log

\* mutant: the probe asks the publisher's backoff first
CheckCallConsultsBackoff ==
    /\ cc_pc = "idle"
    /\ IF _should_attempt_connection(_last_connection_attempt,
                                     _connection_failures, now)
       THEN /\ cc_pc' = "connect"
            /\ UNCHANGED << cc_conn, cc_result, cc_log >>
       ELSE /\ cc_pc' = "done"
            /\ cc_result' = "False"
            /\ UNCHANGED << cc_conn, cc_log >>
    /\ UNCHANGED notCheck

\* the call: lines 268-277, up to the first await
CheckCall ==
    /\ cc_pc = "idle"
    /\ cc_pc' = "connect"
    /\ UNCHANGED << cc_conn, cc_result, cc_log >>
    /\ UNCHANGED notCheck

\* lines 271-278: __aenter__ connects, or raises
CheckConnect ==
    /\ cc_pc = "connect"
    /\ \/ /\ cc_conn' = TRUE
          /\ cc_pc' = "subscribe"
          /\ UNCHANGED << cc_result, cc_log >>
       \/ /\ \E kind \in CheckFaultKinds : CheckExcept(kind)
          /\ cc_pc' = "done"
          /\ UNCHANGED cc_conn
    /\ UNCHANGED notCheck

\* mutant: the client is connected by hand and not disconnected on success
CheckSubscribeLeavesOpen ==
    /\ cc_pc = "subscribe"
    /\ cc_pc' = "done"
    /\ cc_result' = "True" /\ cc_log' = "info"
    /\ UNCHANGED cc_conn
    /\ UNCHANGED notCheck

\* lines 280-282: subscribe completes and `return True` leaves the block,
\* whose __aexit__ disconnects (a fault of that disconnect reaches the
\* except clauses); or subscribe raises.  The connection is closed on every
\* way out of the block.
CheckSubscribe ==
    /\ cc_pc = "subscribe"
    /\ cc_pc' = "done"
    /\ cc_conn' = FALSE
    /\ \/ cc_result' = "True" /\ cc_log' = "info"
       \/ \E kind \in CheckFaultKinds : CheckExcept(kind)
    /\ UNCHANGED notCheck

\* the task that runs the check is cancelled at the connect or at the
\* subscribe; no clause catches CancelledError
CheckCancel ==
    /\ cc_pc \in {"connect", "subscribe"}
    /\ CheckExcept("CancelledError")
    /\ cc_conn' = FALSE
    /\ cc_pc' = "done"
    /\ UNCHANGED notCheck

\* the caller has the result and may call again
CheckReturn ==
    /\ cc_pc = "done"
    /\ cc_pc' = "idle"
    /\ cc_result' = "none"
    /\ cc_log' = "none"
    /\ UNCHANGED cc_conn
    /\ UNCHANGED notCheck

(* ---------------------------------------------------------------------- *)
(* MQTTConfig, config/mqtt_config.py:9-23                                  *)
(* ---------------------------------------------------------------------- *)

\* line 22: the range of a port
MinPort == 1
MaxPort == 65535

\* the values a caller passes as port: ints around the two ends of the range
\* and in its middle, and values of other types.  A value is its Python type
\* and the number it compares as.
IntPorts == (-1 .. 3) \cup {1883, 8883, 8884} \cup (65533 .. 65537)

PortInputs ==
    [type : {"int"}, value : IntPorts]
    \cup { [type |-> "bool", value |-> 1],      \* True
           [type |-> "bool", value |-> 0],      \* False
           [type |-> "str", value |-> 1883],    \* "1883"
           [type |-> "float", value |-> 1883],  \* 1883.0
           [type |-> "NoneType", value |-> 0] }

\* no argument / no object
NoPort == [type |-> "nothing", value |-> 0]

\* isinstance(port, int): bool is a subclass of int
IsInstanceInt(port) == port.type \in {"int", "bool"}

\* mutant: the lower end of the range is off by one
PostInitAllowsZero(port) ==
    IF ~ IsInstanceInt(port) THEN "ValueError"
    ELSE IF port.value < 0 \/ port.value > MaxPort THEN "ValueError"
    ELSE "ok"

\* lines 19-23: __post_init__
PostInit(port) ==
    IF ~ IsInstanceInt(port) THEN "ValueError"
    ELSE IF port.value < MinPort \/ port.value > MaxPort THEN "ValueError"
    ELSE "ok"

\* the operations that make an aiomqtt.Client from a config (mqtt_comms.py
\* lines 66-73, 130-135, 203-211, 271-278)
Operations == {"publish_payload", "send_message_and_wait_for_response",
               "setup_mqtt_listener", "check_connection"}

\* lines 9-23: MQTTConfig(..., port=port, ...): the generated __init__ sets
\* the fields and calls __post_init__; when that raises, the caller gets the
\* exception and no object
ConfigConstruct ==
    /\ mc_state = "none"
    /\ \E port \in PortInputs :
          /\ mc_arg' = port
          /\ IF PostInit(port) = "ok"
             THEN /\ mc_state' = "constructed"
                  /\ mc_port' = port
                  /\ mc_err' = "none"
             ELSE /\ mc_state' = "raised"
                  /\ mc_port' = NoPort
                  /\ mc_err' = PostInit(port)
    /\ UNCHANGED << mc_used, tc_config, tc_call, tc_topic >>
    /\ UNCHANGED notConfig

\* an operation is called with the object and reads its port for the client
ConfigUse ==
    /\ mc_state = "constructed"
    /\ \E op \in Operations : mc_used' = op
    /\ UNCHANGED << mc_state, mc_arg, mc_port, mc_err, tc_config, tc_call,
                    tc_topic >>
    /\ UNCHANGED notConfig

\* line 9, frozen=True: an assignment to a field raises FrozenInstanceError
\* and the field keeps its value
ConfigAssign ==
    /\ mc_state = "constructed"
    /\ mc_err' = "FrozenInstanceError"
    /\ UNCHANGED << mc_state, mc_arg, mc_port, mc_used, tc_config, tc_call,
                    tc_topic >>
    /\ UNCHANGED notConfig

\* the caller drops the object, or the exception, and may construct again
ConfigDrop ==
    /\ mc_state \in {"constructed", "raised"}
    /\ mc_state' = "none"
    /\ mc_arg' = NoPort
    /\ mc_port' = NoPort
    /\ mc_err' = "none"
    /\ mc_used' = "none"
    /\ UNCHANGED << tc_config, tc_call, tc_topic >>
    /\ UNCHANGED notConfig

(* ---------------------------------------------------------------------- *)
(* TelemetryConfig topics, config/telemetry_config.py:36-54, and           *)
(* topic_path, mqtt_comms.py:21-22.  A string is the tuple of its          *)
(* characters.                                                             *)
(* ---------------------------------------------------------------------- *)

Purposes == {"telemetry", "status", "response", "alarms", "messages"}

\* root paths and paths a configuration holds ("" is the default of
\* status_path and alarms_path)
RootPaths == { << "r" >>, << "r", "/", "x" >> }
Paths == { << >>, << "t" >> }

TelemetryConfigs ==
    [root_path : RootPaths, telemetry : Paths, status : Paths,
     response : Paths, alarms : Paths, messages : Paths]

DefaultTelemetryConfig ==
    [root_path |-> << "r" >>, telemetry |-> << "t" >>, status |-> << >>,
     response |-> << "t" >>, alarms |-> << >>, messages |-> << "t" >>]

NoCall == [fn |-> "none", arg |-> << >>]

\* mutant: the property joins without the separator
TopicPropertyNoSeparator(config, purpose) ==
    config.root_path \o config[purpose]

\* telemetry_config.py lines 36-54: f"{self.root_path}/{self.<purpose>_path}"
TopicProperty(config, purpose) ==
    config.root_path \o << "/" >> \o config[purpose]

\* mqtt_comms.py lines 21-22: f"{telemetry_config.root_path}{topic}"
topic_path(config, topic) ==
    config.root_path \o topic

\* one of the five *_topic properties is read
ReadTopicProperty ==
    /\ \E purpose \in Purposes :
          /\ tc_call' = [fn |-> purpose, arg |-> tc_config[purpose]]
          /\ tc_topic' = TopicProperty(tc_config, purpose)
    /\ UNCHANGED << mc_state, mc_arg, mc_port, mc_err, mc_used, tc_config >>
    /\ UNCHANGED notConfig

\* topic_path is called with a path of the configuration, bare or with the
\* separator in front
CallTopicPath ==
    /\ \E purpose \in Purposes, sep \in { << >>, << "/" >> } :
          LET topic == sep \o tc_config[purpose]
          IN  /\ tc_call' = [fn |-> "topic_path", arg |-> topic]
              /\ tc_topic' = topic_path(tc_config, topic)
    /\ UNCHANGED << mc_state, mc_arg, mc_port, mc_err, mc_used, tc_config >>
    /\ UNCHANGED notConfig

\* no MQTTConfig yet, no topic computed yet
InitNoConfig ==
    /\ mc_state = "none"
    /\ mc_arg = NoPort
    /\ mc_port = NoPort
    /\ mc_err = "none"
    /\ mc_used = "none"
    /\ tc_call = NoCall
    /\ tc_topic = << >>

InitConfig ==
    /\ InitNoConfig
    /\ tc_config = DefaultTelemetryConfig

(* ---------------------------------------------------------------------- *)
(* A second generator made by setup_mqtt_listener, mqtt_comms.py:173-253.  *)
(* Its locals are the fields of l2; connect and subscribe are one step.    *)
(* ---------------------------------------------------------------------- *)

\* lines 178-179: the locals of a new generator, at position at
InitL2(at) ==
    l2 = [pc |-> at, connection_failures |-> 0,
          last_connection_attempt |-> 0, wake |-> 0]

\* lines 182-199: the top of the loop, up to the sleep or the connect
L2Loop ==
    /\ l2.pc = "top"
    /\ LET current_time == now
       IN  IF ListenerMustWait(l2.last_connection_attempt,
                               l2.connection_failures, current_time)
           THEN LET wait_time ==
                      Min(ListenerBackoffTime(l2.connection_failures)
                            - (current_time - l2.last_connection_attempt),
                          SleepSlice)
                IN  l2' = [l2 EXCEPT !.pc = "sleep",
                                     !.wake = current_time + wait_time]
           ELSE l2' = [l2 EXCEPT !.pc = "attempt",
                                 !.last_connection_attempt = current_time]
    /\ UNCHANGED notL2

\* lines 232-253: both except clauses count the failure and sleep
L2Except(kind) ==
    l2' = [l2 EXCEPT !.pc = "sleep",
                     !.connection_failures = @ + 1,
                     !.wake = now + (IF kind = "MqttError"
                                     THEN MqttErrorPause
                                     ELSE UnexpectedErrorPause)]

\* mutant: the failure is counted on the locals of the other generator too
L2AttemptSharesCount ==
    /\ l2.pc = "attempt"
    /\ \/ /\ l2' = [l2 EXCEPT !.pc = "connected", !.connection_failures = 0]
          /\ UNCHANGED connection_failures
       \/ /\ l2.connection_failures < MaxFailures
          /\ \E kind \in FaultKinds : L2Except(kind)
          /\ connection_failures' = connection_failures + 1
    /\ UNCHANGED << l_pc, last_connection_attempt, l_conn, l_wake, l_received,
                    l_emitted, l_fault_at, l_fault_kind, l_cancelled >>
    /\ UNCHANGED << now, pubvars, rrvars, ccvars, cfgvars, dbvars, fwvars,
                    mgvars >>

\* lines 201-220: connect and subscribe complete and the count is reset, or
\* one of them raises
L2Attempt ==
    /\ l2.pc = "attempt"
    /\ \/ l2' = [l2 EXCEPT !.pc = "connected", !.connection_failures = 0]
       \/ /\ l2.connection_failures < MaxFailures
          /\ \E kind \in FaultKinds : L2Except(kind)
    /\ UNCHANGED notL2

\* lines 223-253: the stream of the open connection raises
L2StreamFault ==
    /\ l2.pc = "connected"
    /\ l2.connection_failures < MaxFailures
    /\ \E kind \in FaultKinds : L2Except(kind)
    /\ UNCHANGED notL2

\* lines 195-196, 245, 253: the sleep is over and the loop starts over
L2Wake ==
    /\ l2.pc = "sleep"
    /\ now >= l2.wake
    /\ l2' = [l2 EXCEPT !.pc = "top"]
    /\ UNCHANGED notL2

\* bound: the clock of a process that runs a publisher and two listeners
\* reaches the instants of the first MaxBrief retries
MaxBrief == 2

BriefInstants ==
    UNION { {RetryInstant(k) - 1, RetryInstant(k)} : k \in 0 .. MaxBrief } \ {0}

\* time passes between two segments of code, for a short while
AdvanceBrief ==
    /\ \E t \in BriefInstants : t > now /\ now' = t
    /\ UNCHANGED << pubvars, rrvars, lsvars, ccvars, cfgvars, othervars >>

(* ---------------------------------------------------------------------- *)
(* DatabaseManager.connection, database/database_manager.py:24-43          *)
(* ---------------------------------------------------------------------- *)

\* line 25: the default of the parameter retries
DefaultRetries == 3

\* bound: the depth of recursion at which the interpreter raises
\* RecursionError
RecursionLimit == 5

\* lines 32-38: what one attempt meets: sqlite3.connect raises, a PRAGMA
\* raises, the test SELECT raises, or all of them pass
TryOutcomes == {"connect_error", "pragma_error", "select_error", "ok"}

\* line 42, `self.connection(retries - 1)`: connection is a property, so
\* `self.connection` calls the getter with no argument, which takes its
\* default; the argument is passed afterwards to what the getter returned
GetterRetries(passed) == DefaultRetries

\* lines 13-22: the one instance (metaclass Singleton), not connected
InitDb ==
    /\ db_pc = "idle"
    /\ db_connection = "None"
    /\ db_frames = << >>
    /\ db_tries = << >>
    /\ db_result = "none"

\* a caller reads db.connection
DbAccess ==
    /\ db_pc = "idle"
    /\ db_pc' = "getter"
    /\ db_frames' = << DefaultRetries >>
    /\ db_tries' = << >>
    /\ db_result' = "none"
    /\ UNCHANGED db_connection
    /\ UNCHANGED notDb

\* lines 26-42: one frame of the getter, from its entry to its return
\* statement or to the property access of line 42
DbGetter ==
    /\ db_pc = "getter"
    /\ LET retries == db_frames[Len(db_frames)]
       IN  IF db_connection # "None"
           THEN /\ db_pc' = "return"
                /\ UNCHANGED << db_connection, db_frames, db_tries,
                                db_result >>
           ELSE IF retries <= 0
           THEN /\ db_result' = "OperationalError"
                /\ db_frames' = << >>
                /\ db_pc' = "done"
                /\ UNCHANGED << db_connection, db_tries >>
           ELSE \E outcome \in TryOutcomes :
                   /\ db_tries' = Append(db_tries, outcome)
                   /\ IF outcome = "ok"
                      THEN /\ db_connection' = "open"
                           /\ db_pc' = "return"
                           /\ UNCHANGED << db_frames, db_result >>
                      ELSE /\ db_connection' = "None"
                           /\ IF Len(db_frames) >= RecursionLimit
                              THEN /\ db_result' = "RecursionError"
                                   /\ db_frames' = << >>
                                   /\ db_pc' = "done"
                              ELSE /\ db_frames' =
                                        Append(db_frames,
                                               GetterRetries(retries - 1))
                                   /\ UNCHANGED << db_pc, db_result >>
    /\ UNCHANGED notDb

\* lines 42-43: a frame returns the connection; the caller gets it, or the
\* frame below calls it with (retries - 1), which raises TypeError, a class
\* no clause of the getter catches
DbReturn ==
    /\ db_pc = "return"
    /\ db_result' = IF Len(db_frames) = 1 THEN "connection" ELSE "TypeError"
    /\ db_frames' = << >>
    /\ db_pc' = "done"
    /\ UNCHANGED << db_connection, db_tries >>
    /\ UNCHANGED notDb

\* the caller has the connection or the exception
DbDone ==
    /\ db_pc = "done"
    /\ db_pc' = "idle"
    /\ UNCHANGED << db_connection, db_frames, db_tries, db_result >>
    /\ UNCHANGED notDb

\* lines 45-48: close()
DbClose ==
    /\ db_pc = "idle"
    /\ db_connection # "None"
    /\ db_connection' = "None"
    /\ UNCHANGED << db_pc, db_frames, db_tries, db_result >>
    /\ UNCHANGED notDb

(* ---------------------------------------------------------------------- *)
(* FirmwareUpdater.update, cloud/firmware_update.py:47-125.  run_command   *)
(* (utils/linux_utils.py:35-50) gives (output, True) or, when the command  *)
(* exits with an error, (message, False).                                  *)
(* ---------------------------------------------------------------------- *)

\* a tag (starts with 'v', lines 52, 65) and a branch
TargetRefs == {"v2", "main"}

IsTag(ref) == ref = "v2"

\* lines 13-26: target_tag, force_update, and current_version, which is
\* what is checked out, or None when `git rev-parse HEAD` failed
UpdaterArgs(head) ==
    [target_tag : TargetRefs, force_update : BOOLEAN,
     current_version : {"None", head}]

NoUpdater == [target_tag |-> "none", force_update |-> FALSE,
              current_version |-> "None"]

\* the two results of run_command
CommandResults == {TRUE, FALSE}

InitFw ==
    /\ fw_pc = "idle"
    /\ fw_args = NoUpdater
    /\ fw_head = "v1"
    /\ fw_backup = "none"
    /\ fw_rollback = "none"
    /\ fw_versions = << >>
    /\ fw_result = "none"

\* bound: versions recorded before the updates stop
MaxUpdates == 2

\* lines 13-19 and 99-105: an updater is made and update() is called; no
\* backup tag of this update exists yet
FwUpdate ==
    /\ fw_pc = "idle"
    /\ Len(fw_versions) < MaxUpdates
    /\ \E args \in UpdaterArgs(fw_head) :
          /\ fw_args' = args
          /\ IF args.current_version = "None" /\ ~ args.force_update
             THEN /\ fw_result' = "False"
                  /\ fw_pc' = "done"
             ELSE /\ fw_pc' = "fetch"
                  /\ fw_result' = "none"
    /\ fw_backup' = "none"
    /\ fw_rollback' = "none"
    /\ UNCHANGED << fw_head, fw_versions >>
    /\ UNCHANGED notFw

\* update() has returned; after sys.exit there is no process to go on
FwDone ==
    /\ fw_pc = "done"
    /\ fw_result # "SystemExit"
    /\ fw_pc' = "idle"
    /\ UNCHANGED << fw_args, fw_head, fw_backup, fw_rollback, fw_versions,
                    fw_result >>
    /\ UNCHANGED notFw

\* lines 52-59: git fetch; when it fails update_repository returns False
\* and so does update (lines 112-113)
FwFetch ==
    /\ fw_pc = "fetch"
    /\ \E fetch_success \in CommandResults :
          IF ~ fetch_success
          THEN /\ fw_result' = "False"
               /\ fw_pc' = "done"
          ELSE /\ fw_pc' = "backup"
               /\ UNCHANGED fw_result
    /\ UNCHANGED << fw_args, fw_head, fw_backup, fw_rollback, fw_versions >>
    /\ UNCHANGED notFw

\* lines 38-44, 62: git tag backup_<timestamp>; the result of the command
\* is not looked at
FwBackup ==
    /\ fw_pc = "backup"
    /\ \E success \in CommandResults :
          fw_backup' = IF success THEN fw_head ELSE "none"
    /\ fw_pc' = "checkout"
    /\ UNCHANGED << fw_args, fw_head, fw_rollback, fw_versions, fw_result >>
    /\ UNCHANGED notFw

\* lines 65-79: git checkout of the tag, or git checkout -B of the branch
FwCheckout ==
    /\ fw_pc = "checkout"
    /\ \E checkout_success \in CommandResults :
          IF ~ checkout_success
          THEN /\ fw_pc' = "rollback_backup"
               /\ UNCHANGED fw_head
          ELSE /\ fw_head' = fw_args.target_tag
               /\ fw_pc' = IF IsTag(fw_args.target_tag) THEN "record"
                                                        ELSE "pull"
    /\ UNCHANGED << fw_args, fw_backup, fw_rollback, fw_versions, fw_result >>
    /\ UNCHANGED notFw

\* lines 80-87: git pull of the branch
FwPull ==
    /\ fw_pc = "pull"
    /\ \E pull_success \in CommandResults :
          fw_pc' = IF pull_success THEN "record" ELSE "rollback_backup"
    /\ UNCHANGED << fw_args, fw_head, fw_backup, fw_rollback, fw_versions,
                    fw_result >>
    /\ UNCHANGED notFw

\* mutant: a failed rollback is logged and update goes on to return False
FwRollbackNoExit ==
    /\ fw_pc \in {"rollback_backup", "rollback_current"}
    /\ LET backup_ref == fw_pc = "rollback_backup"
           commit == IF backup_ref THEN fw_backup
                                   ELSE fw_args.current_version
       IN  \E success \in CommandResults :
              /\ commit = "none" => ~ success
              /\ IF success
                 THEN /\ fw_head' = commit
                      /\ fw_rollback' = IF backup_ref THEN "backup"
                                                      ELSE "current_version"
                 ELSE UNCHANGED << fw_head, fw_rollback >>
              /\ fw_result' = "False"
    /\ fw_pc' = "done"
    /\ UNCHANGED << fw_args, fw_backup, fw_versions >>
    /\ UNCHANGED notFw

\* lines 90-96, called at 69, 78, 83 with the backup tag and at 124 with
\* current_version: git checkout of the reference, which fails when the
\* reference does not exist; a failed rollback ends the process (sys.exit is
\* not an Exception, the clause of line 121 lets it pass); after a rollback
\* that worked update returns False (lines 70, 79, 84 and 113; line 125)
FwRollback ==
    /\ fw_pc \in {"rollback_backup", "rollback_current"}
    /\ LET backup_ref == fw_pc = "rollback_backup"
           commit == IF backup_ref THEN fw_backup
                                   ELSE fw_args.current_version
       IN  \E success \in CommandResults :
              /\ commit = "none" => ~ success
              /\ IF success
                 THEN /\ fw_head' = commit
                      /\ fw_rollback' = IF backup_ref THEN "backup"
                                                      ELSE "current_version"
                      /\ fw_result' = "False"
                 ELSE /\ fw_result' = "SystemExit"
                      /\ UNCHANGED << fw_head, fw_rollback >>
    /\ fw_pc' = "done"
    /\ UNCHANGED << fw_args, fw_backup, fw_versions >>
    /\ UNCHANGED notFw

\* mutant: the version is recorded before the repository is updated
FwRecordEarly ==
    /\ fw_pc \in {"record", "checkout"}
    /\ fw_versions' = Append(fw_versions, fw_args.target_tag)
    /\ fw_pc' = "cleanup"
    /\ UNCHANGED << fw_args, fw_head, fw_backup, fw_rollback, fw_result >>
    /\ UNCHANGED notFw

\* lines 115-116 and 121-125: add_firmware_version inserts the row and
\* commits, or raises; the clause of line 121 then rolls back to
\* current_version, if there is one, and update returns False
FwRecord ==
    /\ fw_pc = "record"
    /\ \/ /\ fw_versions' = Append(fw_versions, fw_args.target_tag)
          /\ fw_pc' = "cleanup"
          /\ UNCHANGED fw_result
       \/ /\ IF fw_args.current_version # "None"
             THEN /\ fw_pc' = "rollback_current"
                  /\ UNCHANGED fw_result
             ELSE /\ fw_result' = "False"
                  /\ fw_pc' = "done"
          /\ UNCHANGED fw_versions
    /\ UNCHANGED << fw_args, fw_head, fw_backup, fw_rollback >>
    /\ UNCHANGED notFw

\* lines 117-119, 127-158: cleanup_repository, whose result is not looked
\* at; update returns True
FwCleanup ==
    /\ fw_pc = "cleanup"
    /\ fw_result' = "True"
    /\ fw_pc' = "done"
    /\ UNCHANGED << fw_args, fw_head, fw_backup, fw_rollback, fw_versions >>
    /\ UNCHANGED notFw

(* ---------------------------------------------------------------------- *)
(* DatabaseMigrator, database/database_migrator.py:17-110.  The sqlite3    *)
(* module opens a transaction before an INSERT; a CREATE TABLE executed    *)
(* with no transaction open is committed at once.                          *)
(* ---------------------------------------------------------------------- *)

\* lines 114-219: the statements of migrations 1, 2, 3, by kind (CREATE
\* TABLE is "ddl", INSERT is "dml")
Migrations ==
    << << "ddl", "ddl", "dml", "dml", "dml" >>,
       << "ddl", "ddl", "dml" >>,
       << "ddl" >> >>

\* bound: runs of migrate_to_latest
MaxRuns == 3

\* SELECT MAX(version), lines 43-45
RECURSIVE MaxVersion(_)
MaxVersion(rows) ==
    IF rows = << >> THEN 0
    ELSE LET m == MaxVersion(Tail(rows))
         IN  IF Head(rows) > m THEN Head(rows) ELSE m

InitMg ==
    /\ mg_pc = "idle"
    /\ mg_table = FALSE
    /\ mg_rows = << >>
    /\ mg_done = {}
    /\ mg_txn = {}
    /\ mg_current_version = 0
    /\ mg_at = [version |-> 0, statement |-> 0]
    /\ mg_result = "none"
    /\ mg_runs = 0

\* what get_current_version can meet
VersionOutcomes ==
    {"connect_error", "select_error", "create_error", "insert_error",
     "commit_error", "ok"}

\* lines 17-51, get_current_version: what it leaves in the database.  The
\* table is made when it is missing, and the row of version 0 with it; an
\* error after CREATE TABLE leaves the table without the row.
GetCurrentVersionWrites(outcome) ==
    IF mg_table \/ outcome \in {"connect_error", "select_error",
                                "create_error"}
    THEN UNCHANGED << mg_table, mg_rows >>
    ELSE /\ mg_table' = TRUE
         /\ mg_rows' = IF outcome = "ok" THEN Append(mg_rows, 0) ELSE mg_rows

\* lines 17-51, get_current_version: what it returns.  Every exception gives
\* 0 (line 49).
GetCurrentVersionReturns(outcome) ==
    IF mg_table /\ outcome = "ok" THEN MaxVersion(mg_rows) ELSE 0

\* the outcomes that can happen: errors of the creation only when the table
\* is missing
PossibleOutcomes ==
    IF mg_table THEN {"connect_error", "select_error", "ok"}
    ELSE VersionOutcomes

\* lines 91-94: migrate_to_latest is called and reads the version.  When
\* sqlite3.connect raises, the finally clause of line 51 finds conn unbound
\* and the UnboundLocalError leaves migrate_to_latest.
MgCall ==
    /\ mg_pc = "idle"
    /\ mg_runs < MaxRuns
    /\ mg_runs' = mg_runs + 1
    /\ \E outcome \in PossibleOutcomes :
          /\ GetCurrentVersionWrites(outcome)
          /\ IF outcome = "connect_error"
             THEN /\ mg_result' = "UnboundLocalError"
                  /\ mg_pc' = "done"
                  /\ UNCHANGED << mg_current_version, mg_at >>
             ELSE /\ mg_current_version' = GetCurrentVersionReturns(outcome)
                  /\ mg_at' = [version |-> 1, statement |-> 0]
                  /\ mg_result' = "none"
                  /\ mg_pc' = "loop"
    /\ UNCHANGED << mg_done, mg_txn >>
    /\ UNCHANGED notMg

\* mutant: the loop goes on with the next migration after a failure
\* (no break); see MgFailed
MgFailedContinues(raised) ==
    /\ mg_txn' = {}
    /\ IF raised
       THEN /\ mg_result' = "UnboundLocalError"
            /\ mg_pc' = "done"
            /\ UNCHANGED mg_at
       ELSE /\ mg_at' = [version |-> mg_at.version + 1, statement |-> 0]
            /\ mg_pc' = "loop"
            /\ UNCHANGED mg_result

\* lines 82-87 and 102-110: apply_migration failed.  An exception of a
\* statement is caught, the transaction is rolled back, apply_migration
\* returns False, the loop breaks and migrate_to_latest returns False; when
\* sqlite3.connect raised, conn.rollback() of line 84 raises
\* UnboundLocalError, which leaves migrate_to_latest.
MgFailed(raised) ==
    /\ mg_txn' = {}
    /\ mg_result' = IF raised THEN "UnboundLocalError" ELSE "False"
    /\ mg_pc' = "done"
    /\ UNCHANGED mg_at

\* lines 100-101, 106: the loop takes the next migration, if there is one
MgLoop ==
    /\ mg_pc = "loop"
    /\ IF mg_at.version > Len(Migrations)
       THEN /\ mg_pc' = "final"
            /\ UNCHANGED mg_at
       ELSE IF mg_at.version > mg_current_version
       THEN /\ mg_pc' = "apply"
            /\ UNCHANGED mg_at
       ELSE /\ mg_at' = [version |-> mg_at.version + 1, statement |-> 0]
            /\ UNCHANGED mg_pc
    /\ UNCHANGED << mg_table, mg_rows, mg_done, mg_txn, mg_current_version,
                    mg_result, mg_runs >>
    /\ UNCHANGED notMg

\* lines 57-65: apply_migration connects and looks for the row of the
\* version; a version found is skipped (True); the SELECT raises when the
\* table is missing
MgApply ==
    /\ mg_pc = "apply"
    /\ \E outcome \in {"connect_error", "select_error", "ok"} :
          /\ ~ mg_table => outcome # "ok"
          /\ IF outcome # "ok"
             THEN MgFailed(outcome = "connect_error")
             ELSE /\ IF \E k \in 1 .. Len(mg_rows) :
                           mg_rows[k] = mg_at.version
                     THEN /\ mg_at' = [version |-> mg_at.version + 1,
                                       statement |-> 0]
                          /\ mg_pc' = "loop"
                     ELSE /\ mg_at' = [mg_at EXCEPT !.statement = 1]
                          /\ mg_pc' = "statement"
                  /\ UNCHANGED << mg_txn, mg_result >>
    /\ UNCHANGED << mg_table, mg_rows, mg_done, mg_current_version, mg_runs >>
    /\ UNCHANGED notMg

\* mutant: a statement that fails is passed over
MgStatementIgnoresError ==
    /\ mg_pc = "statement"
    /\ LET v == mg_at.version
           i == mg_at.statement
           kind == Migrations[v][i]
       IN  /\ \E ok \in BOOLEAN :
                IF ~ ok
                THEN UNCHANGED << mg_done, mg_txn >>
                ELSE IF kind = "ddl" /\ mg_txn = {}
                THEN /\ mg_done' = mg_done \cup {<< v, i >>}
                     /\ UNCHANGED mg_txn
                ELSE /\ mg_txn' = mg_txn \cup {<< v, i >>}
                     /\ UNCHANGED mg_done
           /\ IF i = Len(Migrations[v])
              THEN mg_pc' = "record" /\ UNCHANGED mg_at
              ELSE /\ mg_at' = [mg_at EXCEPT !.statement = i + 1]
                   /\ UNCHANGED mg_pc
           /\ UNCHANGED mg_result
    /\ UNCHANGED << mg_table, mg_rows, mg_current_version, mg_runs >>
    /\ UNCHANGED notMg

\* lines 67-70: the next statement of the migration is executed, or raises
MgStatement ==
    /\ mg_pc = "statement"
    /\ LET v == mg_at.version
           i == mg_at.statement
           kind == Migrations[v][i]
       IN  \E ok \in BOOLEAN :
              IF ~ ok
              THEN /\ MgFailed(FALSE)
                   /\ UNCHANGED mg_done
              ELSE /\ IF kind = "ddl" /\ mg_txn = {}
                      THEN /\ mg_done' = mg_done \cup {<< v, i >>}
                           /\ UNCHANGED mg_txn
                      ELSE /\ mg_txn' = mg_txn \cup {<< v, i >>}
                           /\ UNCHANGED mg_done
                   /\ IF i = Len(Migrations[v])
                      THEN mg_pc' = "record" /\ UNCHANGED mg_at
                      ELSE /\ mg_at' = [mg_at EXCEPT !.statement = i + 1]
                           /\ UNCHANGED mg_pc
                   /\ UNCHANGED mg_result
    /\ UNCHANGED << mg_table, mg_rows, mg_current_version, mg_runs >>
    /\ UNCHANGED notMg

\* lines 72-80: the row of the version is inserted (version is the primary
\* key, line 33) and the transaction is committed, or one of the two raises
MgRecord ==
    /\ mg_pc = "record"
    /\ LET v == mg_at.version
       IN  \E outcome \in {"insert_error", "commit_error", "ok"} :
              /\ (\E k \in 1 .. Len(mg_rows) : mg_rows[k] = v)
                    => outcome = "insert_error"
              /\ IF outcome # "ok"
                 THEN /\ MgFailed(FALSE)
                      /\ UNCHANGED << mg_rows, mg_done >>
                 ELSE /\ mg_rows' = Append(mg_rows, v)
                      /\ mg_done' = mg_done \cup mg_txn
                      /\ mg_txn' = {}
                      /\ mg_at' = [version |-> v + 1, statement |-> 0]
                      /\ mg_pc' = "loop"
                      /\ UNCHANGED mg_result
    /\ UNCHANGED << mg_table, mg_current_version, mg_runs >>
    /\ UNCHANGED notMg

\* lines 106-110: every migration was applied or skipped; the version is
\* read again for the log and migrate_to_latest returns True
MgFinal ==
    /\ mg_pc = "final"
    /\ \E outcome \in PossibleOutcomes :
          /\ GetCurrentVersionWrites(outcome)
          /\ mg_result' = IF outcome = "connect_error"
                          THEN "UnboundLocalError" ELSE "True"
    /\ mg_pc' = "done"
    /\ UNCHANGED << mg_done, mg_txn, mg_current_version, mg_at, mg_runs >>
    /\ UNCHANGED notMg

\* migrate_to_latest has returned, or raised
MgDone ==
    /\ mg_pc = "done"
    /\ mg_pc' = "idle"
    /\ UNCHANGED << mg_table, mg_rows, mg_done, mg_txn, mg_current_version,
                    mg_at, mg_result, mg_runs >>
    /\ UNCHANGED notMg

\* no second listener, and the database manager, the firmware updater and
\* the migrator not called yet
InitOthers ==
    /\ InitL2("absent")
    /\ InitDb
    /\ InitFw
    /\ InitMg

\* time passes between two segments of code
Advance ==
    /\ \E t \in Instants : t > now /\ now' = t
    /\ UNCHANGED << pubvars, rrvars, lsvars, ccvars, cfgvars, othervars >>

\* the timers that are armed: the deadline of asyncio.timeout while the
\* exchange waits for a message
Timers == IF rr_pc = "wait" THEN {rr_deadline} ELSE {}

\* time passes during one exchange: an await of lines 66-88 stalls for
\* StallStep seconds, or the clock reaches an armed timer; the event loop
\* runs the callback of a timer when its time has come, so the clock does not
\* pass an armed timer
AdvanceExchange ==
    /\ \E t \in ExchangeInstants \cup Timers :
          /\ t > now
          /\ \A d \in Timers : t <= d
          /\ now' = t
    /\ UNCHANGED << pubvars, rrvars, lsvars, ccvars, cfgvars, othervars >>

\* bound: stalled awaits while a probe or an exchange runs next to the
\* publisher
MaxProbeStalls == 0

ProbeInstants == { T0 + k * StallStep : k \in 0 .. MaxProbeStalls }

\* time passes while an exchange or a probe runs next to the publisher; the
\* clock does not pass an armed timer
AdvanceProbe ==
    /\ \E t \in ProbeInstants \cup Timers :
          /\ t > now
          /\ \A d \in Timers : t <= d
          /\ now' = t
    /\ UNCHANGED << pubvars, rrvars, lsvars, ccvars, cfgvars, othervars >>

vars == << now, pubvars, rrvars, lsvars, ccvars, cfgvars, othervars >>

\* the module globals and the callers of the publisher, each in state at
InitPublisher(at) ==
    /\ _last_connection_attempt = 0
    /\ _connection_failures = 0
    /\ pc = [p \in Callers |-> at]
    /\ conn = [p \in Callers |-> FALSE]
    /\ sent = [p \in Callers |-> FALSE]
    /\ result = [p \in Callers |-> "none"]
    /\ log = [p \in Callers |-> "none"]
    /\ value = [p \in Callers |-> 0]

InitExchangeAt(at) ==
    /\ rr_pc = at
    /\ rr_args = NoArgs
    /\ rr_conn = FALSE
    /\ rr_subscribed = FALSE
    /\ rr_commanded = FALSE
    /\ rr_arrived = << >>
    /\ rr_cursor = 0
    /\ rr_deadline = 0
    /\ rr_result = Pending
    /\ rr_log = "none"
    /\ rr_started = 0
    /\ rr_wait_from = 0

InitExchange == InitExchangeAt("idle")

\* check_connection in state at
InitCheck(at) ==
    /\ cc_pc = at
    /\ cc_conn = FALSE
    /\ cc_result = "none"
    /\ cc_log = "none"

\* lines 177-180: the listener's locals, the generator in state at
InitListener(at) ==
    /\ l_pc = at
    /\ connection_failures = 0
    /\ last_connection_attempt = 0
    /\ l_conn = FALSE
    /\ l_wake = 0
    /\ l_received = << >>
    /\ l_emitted = << >>
    /\ l_fault_at = 0
    /\ l_fault_kind = "none"
    /\ l_cancelled = NotCancelled

Init ==
    /\ now = T0
    /\ InitConfig
    /\ InitOthers
    /\ InitPublisher("idle")
    /\ InitExchange
    /\ InitListener("top")
    /\ InitCheck("idle")

Next ==
    \/ Advance
    \/ \E p \in Callers : PublishStart(p)
    \/ \E p \in Callers : PublishConnect(p)
    \/ \E p \in Callers : PublishSend(p)
    \/ \E p \in Callers : PublishClose(p)
    \/ \E p \in Callers : GetBackoffTimeCall(p)
    \/ \E p \in Callers : ShouldAttemptCall(p)
    \/ \E p \in Callers : Return(p)

\* the publisher and its concurrent callers
Spec == Init /\ [][Next]_vars

NextExchange ==
    \/ AdvanceExchange
    \/ SendCall
    \/ SendConnect
    \/ SendSubscribe
    \/ SendPublish
    \/ SendReceive
    \/ SendTimeout
    \/ SendStreamFault
    \/ Deliver
    \/ SendReturn

\* one request/response exchange at a time, and the broker's deliveries
SpecExchange == Init /\ [][NextExchange]_vars

NextListener ==
    \/ Advance
    \/ ListenerLoop
    \/ ListenerWake
    \/ ListenerConnect
    \/ ListenerSubscribe
    \/ ListenerStreamFault
    \/ ListenerStreamEnd
    \/ ListenerCancel

\* one listener and the clock: its connections, faults, sleeps and
\* cancellation, on a topic on which nothing is published
SpecListener == Init /\ [][NextListener]_vars

NextStream ==
    \/ ListenerLoop
    \/ ListenerConnect
    \/ ListenerSubscribe
    \/ ListenerMessage
    \/ ListenerResume
    \/ ListenerStreamFault
    \/ ListenerStreamEnd
    \/ ListenerCancel

\* the event loop runs a coroutine whose sleep is over or that is ready to
\* run, and time passes
SpecListenerFair ==
    /\ SpecListener
    /\ WF_vars(ListenerWake)
    /\ WF_vars(ListenerLoop)
    /\ WF_vars(Advance)

\* one listener and the messages of its topic, within one reading of the
\* clock: what it receives and yields up to the first sleep
SpecStream == Init /\ [][NextStream]_vars

\* a process that runs the publisher's callers, or one that runs a listener:
\* the two keep their backoff state apart (module globals / locals of the
\* generator), so each is followed on its own
InitBackoff ==
    /\ now = T0
    /\ InitConfig
    /\ InitOthers
    /\ InitExchange
    /\ InitCheck("idle")
    /\ \/ InitPublisher("idle") /\ InitListener("absent")
       \/ InitPublisher("absent") /\ InitListener("top")

NextBackoff ==
    \/ Advance
    \/ \E p \in Callers : PublishStart(p)
    \/ \E p \in Callers : PublishConnect(p)
    \/ \E p \in Callers : PublishSend(p)
    \/ \E p \in Callers : PublishClose(p)
    \/ \E p \in Callers : GetBackoffTimeCall(p)
    \/ \E p \in Callers : Return(p)
    \/ ListenerLoop
    \/ ListenerWake
    \/ ListenerConnect
    \/ ListenerSubscribe
    \/ ListenerStreamFault

SpecBackoff == InitBackoff /\ [][NextBackoff]_vars

\* a process with one coroutine that calls the publisher, or one that runs
\* a listener
InitRecovery ==
    /\ now = T0
    /\ InitConfig
    /\ InitOthers
    /\ InitExchange
    /\ InitCheck("idle")
    /\ \/ /\ InitPublisher("absent")
          /\ InitListener("top")
       \/ /\ \E p \in Callers :
                pc = [q \in Callers |-> IF q = p THEN "idle" ELSE "absent"]
          /\ _last_connection_attempt = 0
          /\ _connection_failures = 0
          /\ conn = [q \in Callers |-> FALSE]
          /\ sent = [q \in Callers |-> FALSE]
          /\ result = [q \in Callers |-> "none"]
          /\ log = [q \in Callers |-> "none"]
          /\ value = [q \in Callers |-> 0]
          /\ InitListener("absent")

\* the event loop runs every coroutine that is ready, time passes, and the
\* caller keeps calling publish_payload.  Faults are injected only while the
\* failure count is below MaxFailures: from then on the broker is reachable.
SpecRecoveryFair ==
    /\ InitRecovery /\ [][NextBackoff]_vars
    /\ WF_vars(Advance)
    /\ WF_vars(ListenerLoop)
    /\ WF_vars(ListenerWake)
    /\ WF_vars(ListenerConnect)
    /\ WF_vars(ListenerSubscribe)
    /\ \A p \in Callers :
          /\ SF_vars(PublishStart(p))
          /\ WF_vars(PublishConnect(p))
          /\ WF_vars(PublishSend(p))
          /\ WF_vars(PublishClose(p))
          /\ WF_vars(Return(p))

\* bound: the largest failure count the wait is computed for
MaxCount == 10

\* the publisher's globals and the listener's locals after n failures in a
\* row, the last attempt made at the first reading of the clock
InitWaitTime ==
    /\ now = T0
    /\ InitConfig
    /\ InitOthers
    /\ InitExchange
    /\ InitCheck("idle")
    /\ \E n \in 0 .. MaxCount :
          /\ _connection_failures = n
          /\ _last_connection_attempt = (IF n = 0 THEN 0 ELSE T0)
          /\ connection_failures = n
          /\ last_connection_attempt = (IF n = 0 THEN 0 ELSE T0)
    /\ pc = [p \in Callers |-> "idle"]
    /\ conn = [p \in Callers |-> FALSE]
    /\ sent = [p \in Callers |-> FALSE]
    /\ result = [p \in Callers |-> "none"]
    /\ log = [p \in Callers |-> "none"]
    /\ value = [p \in Callers |-> 0]
    /\ l_pc = "top"
    /\ l_conn = FALSE
    /\ l_wake = 0
    /\ l_received = << >>
    /\ l_emitted = << >>
    /\ l_fault_at = 0
    /\ l_fault_kind = "none"
    /\ l_cancelled = NotCancelled

NextWaitTime ==
    \/ Advance
    \/ \E p \in Callers : GetBackoffTimeCall(p)
    \/ \E p \in Callers : Return(p)
    \/ ListenerLoop
    \/ ListenerWake

\* the wait computed by _get_backoff_time and by the listener's loop, for
\* every failure count up to MaxCount
SpecWaitTime == InitWaitTime /\ [][NextWaitTime]_vars

\* readings of time.time(): the clock of the device is the wall clock, which
\* may be set back between two readings
PolicyInstants == { T0 + d : d \in {0, 1, 2, 4, 300, 1024} }

\* the inputs of the two backoff decisions: a failure count, the time of the
\* last attempt (0 when there was none) and a reading of the clock, the same
\* for the publisher's globals and the listener's locals
InitPolicy ==
    /\ now \in PolicyInstants
    /\ InitConfig
    /\ InitOthers
    /\ InitExchange
    /\ InitCheck("idle")
    /\ \E n \in 0 .. MaxCount, last \in {0} \cup PolicyInstants :
          /\ _connection_failures = n
          /\ _last_connection_attempt = last
          /\ connection_failures = n
          /\ last_connection_attempt = last
    /\ pc = [p \in Callers |-> "idle"]
    /\ conn = [p \in Callers |-> FALSE]
    /\ sent = [p \in Callers |-> FALSE]
    /\ result = [p \in Callers |-> "none"]
    /\ log = [p \in Callers |-> "none"]
    /\ value = [p \in Callers |-> 0]
    /\ l_pc = "top"
    /\ l_conn = FALSE
    /\ l_wake = 0
    /\ l_received = << >>
    /\ l_emitted = << >>
    /\ l_fault_at = 0
    /\ l_fault_kind = "none"
    /\ l_cancelled = NotCancelled

NextPolicy ==
    \/ \E p \in Callers : GetBackoffTimeCall(p)
    \/ \E p \in Callers : ShouldAttemptCall(p)
    \/ \E p \in Callers : Return(p)
    \/ ListenerLoop

\* the publisher's two functions and the listener's loop head, applied to
\* the same failure count, attempt time and clock reading
SpecPolicy == InitPolicy /\ [][NextPolicy]_vars

NextMqttConfig ==
    \/ ConfigConstruct
    \/ ConfigUse
    \/ ConfigAssign
    \/ ConfigDrop

\* the life of MQTTConfig objects, one at a time
SpecMqttConfig == Init /\ [][NextMqttConfig]_vars

InitTopics ==
    /\ now = T0
    /\ InitPublisher("idle")
    /\ InitExchange
    /\ InitListener("top")
    /\ InitCheck("idle")
    /\ InitNoConfig
    /\ InitOthers
    /\ tc_config \in TelemetryConfigs

NextTopics ==
    \/ ReadTopicProperty
    \/ CallTopicPath

\* the topics computed from every TelemetryConfig
SpecTopics == InitTopics /\ [][NextTopics]_vars

\* one coroutine that calls the publisher, at position at
InitOneCaller(at) ==
    /\ \E p \in Callers :
          pc = [q \in Callers |-> IF q = p THEN at ELSE "absent"]
    /\ _last_connection_attempt = 0
    /\ _connection_failures = 0
    /\ conn = [q \in Callers |-> FALSE]
    /\ sent = [q \in Callers |-> FALSE]
    /\ result = [q \in Callers |-> "none"]
    /\ log = [q \in Callers |-> "none"]
    /\ value = [q \in Callers |-> 0]

\* a process that runs a listener and, next to it, either one coroutine
\* that calls the publisher or a second listener
InitPrivate ==
    /\ now = T0
    /\ InitConfig
    /\ InitExchange
    /\ InitCheck("idle")
    /\ InitListener("top")
    /\ \/ InitOneCaller("idle") /\ InitL2("absent")
       \/ InitPublisher("absent") /\ InitL2("top")
    /\ InitDb
    /\ InitFw
    /\ InitMg

NextPrivate ==
    \/ AdvanceBrief
    \/ \E p \in Callers : PublishStart(p)
    \/ \E p \in Callers : PublishConnect(p)
    \/ \E p \in Callers : PublishSend(p)
    \/ \E p \in Callers : PublishClose(p)
    \/ \E p \in Callers : Return(p)
    \/ ListenerLoop
    \/ ListenerWake
    \/ ListenerConnect
    \/ ListenerSubscribe
    \/ ListenerStreamFault
    \/ L2Loop
    \/ L2Attempt
    \/ L2StreamFault
    \/ L2Wake

\* a listener with the publisher or with another listener, for a short while
SpecPrivate == InitPrivate /\ [][NextPrivate]_vars

\* a process with one coroutine that calls the publisher and, next to it,
\* one that makes request/response exchanges or one that probes the broker
InitProbes ==
    /\ now = T0
    /\ InitConfig
    /\ InitOthers
    /\ InitOneCaller("idle")
    /\ InitListener("absent")
    /\ \/ InitExchange /\ InitCheck("absent")
       \/ InitExchangeAt("absent") /\ InitCheck("idle")

NextProbes ==
    \/ AdvanceProbe
    \/ \E p \in Callers : PublishStart(p)
    \/ \E p \in Callers : PublishConnect(p)
    \/ \E p \in Callers : PublishSend(p)
    \/ \E p \in Callers : PublishClose(p)
    \/ \E p \in Callers : Return(p)
    \/ SendCall
    \/ SendConnect
    \/ SendSubscribe
    \/ SendPublish
    \/ SendReceive
    \/ SendTimeout
    \/ SendStreamFault
    \/ Deliver
    \/ SendReturn
    \/ CheckCall
    \/ CheckConnect
    \/ CheckSubscribe
    \/ CheckReturn

\* the publisher with an exchange or a probe side by side
SpecProbes == InitProbes /\ [][NextProbes]_vars

NextDb ==
    \/ DbAccess
    \/ DbGetter
    \/ DbReturn
    \/ DbDone
    \/ DbClose

\* accesses to DatabaseManager.connection
SpecDb == Init /\ [][NextDb]_vars

NextFirmware ==
    \/ FwUpdate
    \/ FwFetch
    \/ FwBackup
    \/ FwCheckout
    \/ FwPull
    \/ FwRollback
    \/ FwRecord
    \/ FwCleanup
    \/ FwDone

\* firmware updates, one after the other
SpecFirmware == Init /\ [][NextFirmware]_vars

NextMigrator ==
    \/ MgCall
    \/ MgLoop
    \/ MgApply
    \/ MgStatement
    \/ MgRecord
    \/ MgFinal
    \/ MgDone

\* runs of migrate_to_latest on one database, one after the other
SpecMigrator == Init /\ [][NextMigrator]_vars

NextCheck ==
    \/ Advance
    \/ CheckCall
    \/ CheckConnect
    \/ CheckSubscribe
    \/ CheckReturn

\* calls of check_connection, one after the other, none of them cancelled
SpecCheck == Init /\ [][NextCheck]_vars

\* one of the four operations that open a connection, with the faults and
\* the cancellation of each; which one runs is chosen at the start
InitConnections ==
    /\ now = T0
    /\ InitConfig
    /\ InitOthers
    /\ \/ /\ InitPublisher("idle") /\ InitExchangeAt("absent")
          /\ InitListener("absent") /\ InitCheck("absent")
       \/ /\ InitPublisher("absent") /\ InitExchangeAt("idle")
          /\ InitListener("absent") /\ InitCheck("absent")
       \/ /\ InitPublisher("absent") /\ InitExchangeAt("absent")
          /\ InitListener("top") /\ InitCheck("absent")
       \/ /\ InitPublisher("absent") /\ InitExchangeAt("absent")
          /\ InitListener("absent") /\ InitCheck("idle")

NextConnections ==
    \/ AdvanceExchange
    \/ \E p \in Callers : PublishStart(p)
    \/ \E p \in Callers : PublishConnect(p)
    \/ \E p \in Callers : PublishSend(p)
    \/ \E p \in Callers : PublishClose(p)
    \/ \E p \in Callers : PublishCancel(p)
    \/ \E p \in Callers : Return(p)
    \/ SendCall
    \/ SendConnect
    \/ SendSubscribe
    \/ SendPublish
    \/ SendReceive
    \/ SendTimeout
    \/ SendStreamFault
    \/ SendCancel
    \/ Deliver
    \/ SendReturn
    \/ ListenerLoop
    \/ ListenerWake
    \/ ListenerConnect
    \/ ListenerSubscribe
    \/ ListenerMessage
    \/ ListenerResume
    \/ ListenerStreamFault
    \/ ListenerStreamEnd
    \/ ListenerCancel
    \/ CheckCall
    \/ CheckConnect
    \/ CheckSubscribe
    \/ CheckCancel
    \/ CheckReturn

\* the connections of the four operations, on the coarse clock of an
\* exchange
SpecConnections == InitConnections /\ [][NextConnections]_vars

(* ====================================================================== *)
(* Properties                                                              *)
(* ====================================================================== *)

\* the wait the backoff policy prescribes for n recorded failures
WaitTime(n) == IF n = 0 THEN 0 ELSE Min(2 ^ n, 300)

\* caller p is inside the attempt of a publish call
Attempting(p) == pc[p] \in {"connect", "publish", "close"}

\* this step is the first segment of a publish call of p
PublishCalled(p) ==
    /\ pc[p] = "idle" /\ pc'[p] # "idle"
    /\ result'[p] \notin {"backoff", "attempt", "no_attempt"}

\* C1: whenever the wait time is computed (a direct call of wait_time, the
\* wait logged by a skipped publish, the wait logged after a recorded
\* failure) it is 0 for failure_count = 0 and min(2^failure_count, 300)
\* otherwise, for the failure_count current at that moment.
C1_WaitTime ==
    [][\A p \in Callers :
         /\ (pc[p] = "idle" /\ result'[p] = "backoff")
               => value'[p] = WaitTime(_connection_failures)
         /\ (pc[p] = "idle" /\ log'[p] = "info_skip")
               => value'[p] = WaitTime(_connection_failures)
         /\ (Attempting(p) /\ log'[p] \in {"warning", "error"})
               => value'[p] = WaitTime(_connection_failures')
      ]_vars

\* wait_time was called with no failure recorded (0) and, by another caller,
\* with so many that the cap applies (300)
C1_Witness ==
    \E p, q \in Callers :
        /\ result[p] = "backoff" /\ value[p] = 300
        /\ result[q] = "backoff" /\ value[q] = 0

\* C2: a publish call is permitted to attempt exactly when failure_count is 0,
\* or no attempt was recorded before, or at least wait_time has passed since
\* the last recorded attempt.
C2_ShouldAttempt ==
    [][\A p \in Callers :
         PublishCalled(p) =>
            ( pc'[p] = "connect"
              <=> \/ _connection_failures = 0
                  \/ _last_connection_attempt = 0
                  \/ now - _last_connection_attempt
                       >= WaitTime(_connection_failures) )
      ]_vars

\* a call was permitted with failures recorded, exactly wait_time after the
\* last attempt
C2_Witness ==
    \E p \in Callers :
        /\ pc[p] = "connect"
        /\ _connection_failures = 3
        /\ _last_connection_attempt = now
        /\ \E q \in Callers : log[q] = "info_skip" /\ value[q] = 8

\* C3: a publish call made while the backoff forbids an attempt returns False
\* in its first step, opens no connection and publishes nothing.
C3_SkipTouchesNothing ==
    [][\A p \in Callers :
         ( /\ PublishCalled(p)
           /\ _connection_failures > 0
           /\ _last_connection_attempt # 0
           /\ now - _last_connection_attempt < WaitTime(_connection_failures) )
         => /\ pc'[p] = "done"
            /\ result'[p] = "False"
            /\ conn' = conn /\ ~ conn'[p]
            /\ sent' = sent /\ ~ sent'[p]
      ]_vars

\* a call was skipped
C3_Witness ==
    \E p \in Callers :
        /\ pc[p] = "done" /\ log[p] = "info_skip" /\ result[p] = "False"
        /\ ~ conn[p] /\ ~ sent[p]

\* C4: an attempt that ends with a fault (it does not return True) returns
\* False, raises nothing, and adds exactly 1 to failure_count.
C4_FaultAbsorbed ==
    [][\A p \in Callers :
         (Attempting(p) /\ pc'[p] = "done" /\ result'[p] # "True")
         => /\ result'[p] = "False"
            /\ _connection_failures' = _connection_failures + 1
      ]_vars

\* the first call ever made failed while connecting: failure_count is 1
C4_Witness ==
    \E p \in Callers :
        /\ pc[p] = "done" /\ result[p] = "False" /\ log[p] = "warning"
        /\ ~ sent[p]
        /\ _connection_failures = 1
        /\ \A q \in Callers \ {p} : pc[q] = "idle"

\* C5: the last step of an attempt either records a fault, or returns True
\* with the payload published, and then failure_count is 0.
C5_SuccessResets ==
    [][\A p \in Callers :
         (pc[p] = "close" /\ pc'[p] = "done")
         => \/ /\ result'[p] = "True"
               /\ sent'[p]
               /\ _connection_failures' = 0
            \/ /\ result'[p] = "False"
               /\ _connection_failures' = _connection_failures + 1
      ]_vars

\* a publish succeeded after many failures
C5_Witness ==
    \E p \in Callers :
        /\ result[p] = "True" /\ log[p] = "info_restored" /\ value[p] >= 5
        /\ _connection_failures = 0

C7_Serialized ==
    Cardinality({p \in Callers : Attempting(p)}) <= 1

\* a well-formed response whose correlation id is a
IsMatch(m, a) == m.kind = "object" /\ m.action_id = a

\* C8: the step that publishes the command is taken with the connection open
\* and the subscription to the response topic in place; without a completed
\* subscribe the command is never published.
C8_SubscribeBeforePublish ==
    [][(~ rr_commanded /\ rr_commanded')
          => (rr_conn /\ rr_subscribed /\ rr_subscribed')]_vars

\* the command was published, after the subscribe, and the call waits
C8_Witness ==
    rr_pc = "wait" /\ rr_commanded /\ rr_subscribed /\ rr_conn

\* C9: a returned message is the last message handed out, it is well-formed
\* and carries the caller's correlation id, and no message handed out before
\* it did; as long as the call waits, no message handed out matched (the first
\* match ends the wait at once); and the call that ended at a matching message
\* returned that message (or None, when closing the connection raised).
C9_FirstMatchReturned ==
    /\ rr_result.kind = "object"
         => /\ rr_cursor >= 1
            /\ rr_result = rr_arrived[rr_cursor]
            /\ IsMatch(rr_result, rr_args.action_id)
            /\ \A i \in 1 .. rr_cursor - 1 :
                  ~ IsMatch(rr_arrived[i], rr_args.action_id)
    /\ rr_pc = "wait"
         => \A i \in 1 .. rr_cursor :
               ~ IsMatch(rr_arrived[i], rr_args.action_id)
    /\ (rr_pc = "done" /\ rr_cursor >= 1
          /\ IsMatch(rr_arrived[rr_cursor], rr_args.action_id))
         => rr_result \in {rr_arrived[rr_cursor], NoResponse}

\* a response with another correlation id was handed out and discarded, and
\* the matching one after it was returned
C9_Witness ==
    /\ rr_pc = "done"
    /\ rr_cursor = 2
    /\ rr_arrived[1].kind = "object"
    /\ rr_arrived[1].action_id \in ActionIds \ {rr_args.action_id}
    /\ rr_result = rr_arrived[2]
    /\ rr_result.action_id = rr_args.action_id

\* C10: handing out a message that is not JSON leaves the call waiting, with
\* its connection, subscription and deadline as they were; and a matching
\* message handed out after a malformed one ends the call with that message
\* (or None, when closing the connection raised).
C10_MalformedSkipped ==
    [][(rr_pc = "wait" /\ rr_cursor' = rr_cursor + 1)
          => /\ rr_arrived[rr_cursor'].kind = "malformed"
                  => /\ rr_pc' = "wait"
                     /\ rr_result' = Pending
                     /\ rr_conn' /\ rr_subscribed'
                     /\ rr_deadline' = rr_deadline
             /\ ( /\ IsMatch(rr_arrived[rr_cursor'], rr_args.action_id)
                  /\ \E i \in 1 .. rr_cursor : rr_arrived[i].kind = "malformed" )
                  => /\ rr_pc' = "done"
                     /\ rr_result' \in {rr_arrived[rr_cursor'], NoResponse}
      ]_vars

\* a message that is not JSON was skipped and the matching message after it
\* was returned
C10_Witness ==
    /\ rr_pc = "done"
    /\ rr_cursor = 2
    /\ rr_arrived[1].kind = "malformed"
    /\ rr_result = rr_arrived[2]
    /\ IsMatch(rr_result, rr_args.action_id)


\* no message the call has taken from the stream carried its action_id
NoMatchConsumed ==
    \A i \in 1..rr_cursor : ~IsMatch(rr_arrived[i], rr_args.action_id)

\* C11: when the wait of an exchange ends and no message taken from the
\* stream carried the caller's action_id, the call returns None and the
\* connection it opened is closed at the return; the timeout ends the wait
\* only when timeout_seconds have passed since the wait began
C11_TimeoutReturnsNone ==
    [][ /\ (rr_pc = "wait" /\ rr_pc' = "done" /\ NoMatchConsumed')
            => (rr_result' = NoResponse /\ ~rr_conn' /\ ~rr_subscribed')
        /\ (rr_log' = "timeout" /\ rr_log # "timeout")
            => /\ rr_pc = "wait" /\ rr_pc' = "done"
               /\ now >= rr_wait_from + rr_args.timeout_seconds
               /\ rr_result' = NoResponse /\ ~rr_conn' ]_vars

\* a call that took a message for another action_id, then timed out
C11_Witness ==
    /\ rr_pc = "done"
    /\ rr_log = "timeout"
    /\ rr_cursor > 0
    /\ NoMatchConsumed
    /\ rr_result = NoResponse
    /\ ~rr_conn

\* C12 as stated: from its invocation to its return the call takes no more
\* than timeout_seconds, whichever await it is in
C12_TimeoutBoundsExchange ==
    rr_pc \in {"connect", "subscribe", "publish", "wait"}
        => now <= rr_started + rr_args.timeout_seconds

\* C12: the timeout bounds the receive phase: the wait for a response ends no
\* later than timeout_seconds after the command was published; the time
\* connect, subscribe and publish took is not counted
C12_TimeoutBoundsWait ==
    rr_pc = "wait" => now <= rr_wait_from + rr_args.timeout_seconds

\* a call whose connect or publish stalled: it timed out exactly
\* timeout_seconds after the wait began, later than timeout_seconds after
\* its invocation
C12_Witness ==
    /\ rr_pc = "done"
    /\ rr_log = "timeout"
    /\ now = rr_wait_from + rr_args.timeout_seconds
    /\ rr_wait_from > rr_started
    /\ now > rr_started + rr_args.timeout_seconds

\* C13: no exception of the exchange reaches the caller; the call returns
\* None for every fault
C13_NeverPropagates ==
    rr_result # Raised


\* json.loads accepts the payload
WellFormed(m) == m.kind # "malformed"

\* the message the step has received, if it has received one
ReceivedNow == Len(l_received') = Len(l_received) + 1

\* C14: a message that does not decode is not yielded, the connection stays
\* open and connection_failures keeps its value; a message that decodes,
\* whatever was received before it, is yielded
C14_MalformedSkippedByListener ==
    [][ReceivedNow =>
          LET message == l_received'[Len(l_received')]
          IN  /\ l_conn /\ l_conn'
              /\ connection_failures' = connection_failures
              /\ IF WellFormed(message)
                 THEN l_emitted' = Append(l_emitted, message)
                 ELSE l_emitted' = l_emitted /\ l_pc' = "connected"]_vars

\* a malformed message, then a well-formed one yielded on the same connection
C14_Witness ==
    /\ Len(l_received) = 2
    /\ ~ WellFormed(l_received[1])
    /\ WellFormed(l_received[2])
    /\ l_emitted = << l_received[2] >>
    /\ l_pc = "yielded"
    /\ l_conn
    /\ connection_failures = 0
    /\ l_fault_at = 0

C16_FailureCount ==
    [][ /\ (l_pc \in {"connect", "subscribe", "connected"} /\ l_pc' = "pause")
            => connection_failures' = connection_failures + 1
        /\ (l_pc = "subscribe" /\ l_pc' = "connected")
            => connection_failures' = 0
        /\ (connection_failures' # connection_failures)
            => \/ l_pc \in {"connect", "subscribe", "connected"} /\ l_pc' = "pause"
               \/ l_pc = "subscribe" /\ l_pc' = "connected" ]_vars

\* two faults in a row, counted one by one
C16_Witness ==
    /\ l_pc = "pause"
    /\ connection_failures = 2
    /\ l_fault_at = now

\* the last reading of the model's clock
LastInstant == RetryInstant(MaxRetries)

\* the listener is between a fault or a stream end and its next attempt, and
\* the clock will reach the time at which that attempt is permitted
Recovering ==
    /\ l_pc \in {"pause", "backoff_wait", "top"}
    /\ l_wake <= LastInstant
    /\ last_connection_attempt + ListenerBackoffTime(connection_failures)
          <= LastInstant

C19_EmittedInOrder ==
    l_emitted = SelectSeq(l_received, WellFormed)

\* two different messages, yielded in the order received
C19_Witness ==
    /\ Len(l_emitted) = 2
    /\ l_emitted[1] # l_emitted[2]
    /\ l_emitted = l_received


\* the operation is not running: it has not been called, has returned, or
\* (the listener) has ended or is between two connections
Returned(state) == state \in {"idle", "done", "ended", "absent"}

\* C20: each connection belongs to the call that opened it, and once a call
\* of publish_payload, send_message_and_wait_for_response or
\* check_connection has returned, or the listener has ended, whether by
\* success, fault, timeout or cancellation, its connection is closed
C20_ConnectionsReleased ==
    /\ \A p \in Callers : Returned(pc[p]) => ~ conn[p]
    /\ Returned(rr_pc) => (~ rr_conn /\ ~ rr_subscribed)
    /\ Returned(l_pc) => ~ l_conn
    /\ l_pc \in {"top", "backoff_wait", "pause"} => ~ l_conn
    /\ Returned(cc_pc) => ~ cc_conn

\* an exchange that was cancelled while it waited for the response: it has
\* left its caller with an exception and its connection is closed
C20_Witness ==
    /\ rr_pc = "done"
    /\ rr_result = Raised
    /\ rr_args.logger
    /\ rr_commanded
    /\ ~ rr_conn


\* C21: a call of check_connection that is not cancelled returns True or
\* False and never raises: True exactly when the connect and the probe
\* subscribe completed (the success line was logged last), False when a
\* timeout, a refused connection or any other fault was logged
C21_CheckConnectionResult ==
    /\ [](cc_pc = "done" =>
            /\ cc_result \in {"True", "False"}
            /\ (cc_result = "True") <=> (cc_log = "info")
            /\ (cc_result = "False")
                  <=> (cc_log \in {"timed_out", "refused", "failed"}))
    /\ [][(cc_result' = "True" /\ cc_result # "True")
             => (cc_pc = "subscribe" /\ cc_conn)]_vars

\* a check against a broker that refuses the connection
C21_Witness ==
    /\ cc_pc = "done"
    /\ cc_result = "False"
    /\ cc_log = "refused"
    /\ ~ cc_conn


\* the model's clock ends before the listener's next attempt is permitted
ListenerClockOut ==
    \/ last_connection_attempt + ListenerBackoffTime(connection_failures)
          > LastInstant
    \/ l_pc \in {"pause", "backoff_wait"} /\ l_wake > LastInstant

\* the model's clock ends before the publisher's next attempt is permitted
PublisherClockOut ==
    _last_connection_attempt + _get_backoff_time(_connection_failures)
        > LastInstant

\* C22: the backoff never forbids an attempt once max_backoff seconds have
\* passed since the last one, whatever the failure count; and with a broker
\* that is reachable in the end, a running listener reaches the connected
\* state and callers that keep calling publish_payload get True with the
\* failure count back at 0 (as far as the model's clock reaches)
C22_Recoverable ==
    /\ [](now - last_connection_attempt >= max_backoff
            => ~ ListenerMustWait(last_connection_attempt,
                                  connection_failures, now))
    /\ [](now - _last_connection_attempt >= _max_backoff_seconds
            => _should_attempt_connection(_last_connection_attempt,
                                          _connection_failures, now))
    /\ (l_pc # "absent") ~> (l_pc = "connected" \/ ListenerClockOut)
    /\ (\E p \in Callers : pc[p] # "absent")
          ~> \/ _connection_failures = 0
                  /\ \E p \in Callers : result[p] = "True"
             \/ PublisherClockOut

\* a publish that succeeded after the wait had reached its cap
C22_Witness ==
    /\ \E p \in Callers :
          result[p] = "True" /\ log[p] = "info_restored" /\ value[p] >= 9
    /\ _connection_failures = 0
    /\ ~ PublisherClockOut


\* C23 as stated: the wait computed for n failures is min(2^n, max_backoff)
\* for every n >= 0
C23_WaitTimeAllCounts ==
    \A p \in Callers :
        result[p] = "backoff"
            => value[p] = Min(2 ^ _connection_failures, _max_backoff_seconds)

\* C23: the wait computed for n failures, by _get_backoff_time and by the
\* listener's loop, is min(2^n, max_backoff) for every n >= 1 and 0 for
\* n = 0; it is 8 for n = 3 and 300 for n = 10; a sleep of the listener's
\* backoff is what is left of that wait, at most one slice
C23_WaitTimeFromOne ==
    /\ \A p \in Callers :
          result[p] = "backoff"
             => /\ value[p] = (IF _connection_failures = 0 THEN 0
                               ELSE Min(2 ^ _connection_failures,
                                        _max_backoff_seconds))
                /\ _connection_failures = 3 => value[p] = 8
                /\ _connection_failures = 10 => value[p] = 300
    /\ ListenerBackoffTime(connection_failures)
          = (IF connection_failures = 0 THEN 0
             ELSE Min(2 ^ connection_failures, max_backoff))
    /\ connection_failures = 3 => ListenerBackoffTime(connection_failures) = 8
    /\ connection_failures = 10 => ListenerBackoffTime(connection_failures) = 300
    /\ l_pc = "backoff_wait"
          => l_wake <= last_connection_attempt
                         + Min(2 ^ connection_failures, max_backoff)

\* the wait after ten failures, computed by a direct call: capped at 300
C23_Witness ==
    /\ _connection_failures = 10
    /\ \E p \in Callers : result[p] = "backoff" /\ value[p] = 300
    /\ connection_failures = 10


\* the port is an integer of the range 1..65535
ValidPort(port) ==
    IsInstanceInt(port) /\ port.value >= 1 /\ port.value <= 65535

\* C24: the constructor gives an object exactly when the port is an integer
\* in 1..65535 and raises otherwise; after it raised there is no object and
\* no operation has made a client from one; the port of an object never
\* changes, an assignment to it raises
C24_ConfigFailsFast ==
    /\ [](mc_state = "constructed"
            => ValidPort(mc_arg) /\ mc_port = mc_arg)
    /\ [](mc_state = "raised"
            => /\ ~ ValidPort(mc_arg)
               /\ mc_err = "ValueError"
               /\ mc_port = NoPort
               /\ mc_used = "none")
    /\ [](mc_used # "none" => mc_state = "constructed" /\ ValidPort(mc_port))
    /\ [][mc_state = "constructed" /\ mc_state' = "constructed"
             => mc_port' = mc_port]_vars

\* port 0 was refused at construction
C24_Witness ==
    /\ mc_state = "raised"
    /\ mc_arg = [type |-> "int", value |-> 0]
    /\ mc_err = "ValueError"
    /\ mc_used = "none"

\* C25 as stated: each *_topic property is root_path followed directly by
\* the configured path, which is what topic_path gives for that path
C25_TopicIsRootPlusSuffix ==
    tc_call.fn \in Purposes
        => /\ tc_topic = tc_config.root_path \o tc_call.arg
           /\ tc_topic = topic_path(tc_config, tc_call.arg)

\* C25: each *_topic property is root_path, the separator "/" and the
\* configured path; topic_path is root_path followed directly by its
\* argument; the two give the same topic exactly when the argument of
\* topic_path is the separator followed by the path
C25_TopicNaming ==
    /\ tc_call.fn \in Purposes
          => /\ tc_topic = tc_config.root_path \o << "/" >> \o tc_call.arg
             /\ tc_topic = topic_path(tc_config, << "/" >> \o tc_call.arg)
             /\ tc_topic # topic_path(tc_config, tc_call.arg)
    /\ tc_call.fn = "topic_path"
          => /\ tc_topic = tc_config.root_path \o tc_call.arg
             /\ \A purpose \in Purposes :
                   (tc_topic = TopicProperty(tc_config, purpose))
                      <=> (tc_call.arg = << "/" >> \o tc_config[purpose])

\* the telemetry topic of a configuration with root "r/x" and path "t"
C25_Witness ==
    /\ tc_call.fn = "telemetry"
    /\ tc_config.root_path = << "r", "/", "x" >>
    /\ tc_call.arg = << "t" >>
    /\ tc_topic = << "r", "/", "x", "/", "t" >>


\* should_attempt for the listener's own state
ListenerShouldAttempt ==
    \/ connection_failures = 0
    \/ last_connection_attempt = 0
    \/ now - last_connection_attempt >= Min(Pow2(connection_failures), 300)

\* C26: at the top of its loop the listener goes on to connect exactly when
\* should_attempt holds for its own failure count and attempt time;
\* otherwise it goes to the backoff wait, with no connection open and none
\* opened, and records no attempt; a connect is started from nowhere else
C26_ListenerAttemptsWhenPermitted ==
    [][ /\ (l_pc = "top" /\ l_pc' # "top" /\ l_cancelled' = l_cancelled)
            => IF ListenerShouldAttempt
               THEN l_pc' = "connect"
               ELSE /\ l_pc' = "backoff_wait"
                    /\ ~ l_conn /\ ~ l_conn'
                    /\ last_connection_attempt' = last_connection_attempt
        /\ (l_pc # "connect" /\ l_pc' = "connect") => l_pc = "top"
      ]_vars

\* the listener waits: failures are counted and the wait time since the
\* last attempt has not passed
C26_Witness ==
    /\ l_pc = "backoff_wait"
    /\ ~ l_conn
    /\ connection_failures >= 3
    /\ now - last_connection_attempt < WaitTime(connection_failures)
    /\ now - last_connection_attempt >= UnexpectedErrorPause

\* C27: the sleep the listener starts in the backoff wait lasts the smaller
\* of the rest of the wait time and 10 seconds, so more than 0 and at most
\* 10 seconds; when the sleep is over the loop is at its top again, where
\* the test of the wait time is made anew, and no connect follows the sleep
\* directly
C27_BackoffSlices ==
    [][ /\ (l_pc = "top" /\ l_pc' = "backoff_wait")
            => /\ l_wake' - now
                    = Min(WaitTime(connection_failures)
                            - (now - last_connection_attempt), 10)
               /\ l_wake' - now > 0
               /\ l_wake' - now <= 10
        /\ (l_pc = "backoff_wait" /\ l_pc' # "backoff_wait"
              /\ l_cancelled' = l_cancelled)
            => /\ l_pc' = "top"
               /\ now >= l_wake
               /\ ~ l_conn'
               /\ last_connection_attempt' = last_connection_attempt
      ]_vars

\* a slice of 10 seconds of a longer wait has just begun
C27_Witness ==
    /\ l_pc = "backoff_wait"
    /\ l_wake - now = 10
    /\ WaitTime(connection_failures) - (now - last_connection_attempt) > 10

\* C28: a failure count above 0 becomes 0 only in the step in which the
\* subscribe completes on the open connection, and that step is the only
\* one into the connected state; a fault in connect or in subscribe adds 1
\* to the count and leaves no connection open
C28_ResetAfterSubscribe ==
    [][ /\ (connection_failures > 0 /\ connection_failures' = 0)
            => l_pc = "subscribe" /\ l_pc' = "connected" /\ l_conn /\ l_conn'
        /\ (l_pc # "connected" /\ l_pc' = "connected")
            => /\ l_pc = "subscribe" /\ l_conn /\ l_conn'
               /\ connection_failures' = 0
        /\ (l_pc \in {"connect", "subscribe"} /\ l_pc' = "pause")
            => /\ connection_failures' = connection_failures + 1
               /\ ~ l_conn'
      ]_vars

\* connected again after a fault, the count back at 0
C28_Witness ==
    /\ l_pc = "connected"
    /\ l_conn
    /\ connection_failures = 0
    /\ l_fault_at > 0
    /\ last_connection_attempt > l_fault_at


\* C29: the first step of a permitted publish call sets last_attempt_time to
\* the time of the call, with no connection of the call open yet; the step
\* in which its attempt ends, with success or with a fault, leaves the time
\* alone; a skipped call leaves it alone; it changes in no other step
C29_AttemptTimeRecorded ==
    [][ /\ \A p \in Callers :
             /\ (PublishCalled(p) /\ pc'[p] = "connect")
                  => /\ _last_connection_attempt' = now
                     /\ ~ conn[p] /\ ~ conn'[p]
             /\ (PublishCalled(p) /\ pc'[p] = "done")
                  => _last_connection_attempt' = _last_connection_attempt
             /\ (Attempting(p) /\ pc'[p] = "done")
                  => _last_connection_attempt' = _last_connection_attempt
        /\ _last_connection_attempt' # _last_connection_attempt
             => \E p \in Callers : PublishCalled(p) /\ pc'[p] = "connect"
      ]_vars

\* an attempt recorded at time now ended with a fault; the earlier one was
\* recorded before
C29_Witness ==
    \E p \in Callers :
        /\ pc[p] = "done" /\ result[p] = "False" /\ log[p] = "warning"
        /\ _last_connection_attempt = now
        /\ now > T0
        /\ _connection_failures >= 2

\* the state of the backoff leaves this step as it entered it
BackoffUnchanged ==
    /\ _connection_failures' = _connection_failures
    /\ _last_connection_attempt' = _last_connection_attempt

\* C30: a call of wait_time, a call of should_attempt and a skipped publish
\* leave failure_count and last_attempt_time unchanged, so after a skipped
\* publish an attempt is permitted at exactly the instants at which it was
\* permitted before; failure_count changes only in the step that ends an
\* attempt, last_attempt_time only in the step that starts one
C30_ReadsLeaveBackoffState ==
    [][ /\ \A p \in Callers :
             /\ (pc[p] = "idle"
                   /\ result'[p] \in {"backoff", "attempt", "no_attempt"})
                  => BackoffUnchanged
             /\ (PublishCalled(p) /\ pc'[p] = "done")
                  => /\ BackoffUnchanged
                     /\ \A t \in Instants :
                          _should_attempt_connection(
                              _last_connection_attempt',
                              _connection_failures', t)
                          <=> _should_attempt_connection(
                                  _last_connection_attempt,
                                  _connection_failures, t)
        /\ _connection_failures' # _connection_failures
             => \E p \in Callers : Attempting(p) /\ pc'[p] = "done"
        /\ _last_connection_attempt' # _last_connection_attempt
             => \E p \in Callers : pc[p] = "idle" /\ pc'[p] = "connect"
      ]_vars

\* one caller was refused by should_attempt and the other was skipped, both
\* later than the attempt whose time is still the one recorded
C30_Witness ==
    \E p, q \in Callers :
        /\ pc[p] = "done" /\ result[p] = "no_attempt"
        /\ pc[q] = "done" /\ log[q] = "info_skip"
        /\ _connection_failures >= 2
        /\ now > _last_connection_attempt


\* C31: a fault that is not an MqttError makes the listener pause 5 seconds,
\* whatever the failure count, an MqttError 1 second; when the pause is over
\* the listener is at the top of its loop with no connection open
C31_UnclassifiedFaultPause ==
    [][ /\ (l_pc # "pause" /\ l_pc' = "pause")
            => /\ l_fault_kind' \in FaultKinds
               /\ l_fault_kind' = "MqttError" => l_wake' - now = 1
               /\ l_fault_kind' # "MqttError" => l_wake' - now = 5
               /\ ~ l_conn'
        /\ (l_pc = "pause" /\ l_pc' # "pause" /\ l_cancelled' = l_cancelled)
            => /\ l_pc' = "top"
               /\ now >= l_wake
               /\ ~ l_conn'
               /\ connection_failures' = connection_failures
      ]_vars

\* the pause after an OSError with many failures counted is 5 seconds
C31_Witness ==
    /\ l_pc = "pause"
    /\ l_fault_kind = "OSError"
    /\ connection_failures >= 5
    /\ l_fault_at = now
    /\ l_wake = now + 5


\* C32: a step of a publish call leaves the failure count and the attempt
\* time of every listener as they are; a step of a listener leaves the
\* publisher's globals and the locals of the other listener as they are; a
\* publish call is skipped or permitted by the publisher's own count and
\* attempt time, whatever the listeners have counted
C32_ListenerStatePrivate ==
    [][ /\ (\E p \in Callers : pc'[p] # pc[p])
            => /\ connection_failures' = connection_failures
               /\ last_connection_attempt' = last_connection_attempt
               /\ l2' = l2
        /\ (l_pc' # l_pc)
            => /\ _connection_failures' = _connection_failures
               /\ _last_connection_attempt' = _last_connection_attempt
               /\ l2' = l2
        /\ (l2' # l2)
            => /\ _connection_failures' = _connection_failures
               /\ _last_connection_attempt' = _last_connection_attempt
               /\ connection_failures' = connection_failures
               /\ last_connection_attempt' = last_connection_attempt
        /\ \A p \in Callers :
              PublishCalled(p)
              => (pc'[p] = "connect"
                    <=> \/ _connection_failures = 0
                        \/ _last_connection_attempt = 0
                        \/ now - _last_connection_attempt
                             >= WaitTime(_connection_failures))
      ]_vars

\* a publish call was permitted and succeeded while the listener, with two
\* failures counted, waits
C32_Witness ==
    \E p \in Callers :
        /\ pc[p] = "done" /\ result[p] = "True"
        /\ _connection_failures = 0
        /\ connection_failures >= 2
        /\ l_pc = "backoff_wait"
        /\ _last_connection_attempt > last_connection_attempt


\* the publisher is inside its backoff window
InBackoffWindow ==
    /\ _connection_failures > 0
    /\ _last_connection_attempt # 0
    /\ now - _last_connection_attempt < WaitTime(_connection_failures)

\* C33: a call of send_message_and_wait_for_response or of check_connection
\* goes on to its connect whatever the publisher's backoff state is, and no
\* step of either, success or fault, changes the publisher's failure count
\* or attempt time
C33_ProbesIgnoreBackoff ==
    [][ /\ (rr_pc' # rr_pc \/ cc_pc' # cc_pc)
            => /\ _connection_failures' = _connection_failures
               /\ _last_connection_attempt' = _last_connection_attempt
        /\ (rr_pc = "idle" /\ rr_pc' # "idle") => rr_pc' = "connect"
        /\ (cc_pc = "idle" /\ cc_pc' # "idle") => cc_pc' = "connect"
        /\ (_connection_failures' # _connection_failures
              \/ _last_connection_attempt' # _last_connection_attempt)
            => \E p \in Callers : pc'[p] # pc[p]
      ]_vars

\* an exchange connected, subscribed and published its command while the
\* publisher was inside its backoff window
C33_Witness ==
    /\ InBackoffWindow
    /\ rr_pc = "wait"
    /\ rr_conn /\ rr_commanded
    /\ rr_started >= _last_connection_attempt


\* C34: a command response published inside the backoff window, whichever
\* publish path counted the failures, returns False in its first step with
\* no connection opened and nothing sent, and the backoff state as it was;
\* a payload is sent only in the publish step of its own call, so a skipped
\* payload stays unsent
C34_SharedBackoff ==
    [][ \A p \in Callers :
          /\ ( /\ PathOf(p) = "upload_command_response"
               /\ PublishCalled(p)
               /\ InBackoffWindow )
               => /\ pc'[p] = "done"
                  /\ result'[p] = "False"
                  /\ conn' = conn /\ ~ conn'[p]
                  /\ ~ sent'[p]
                  /\ BackoffUnchanged
          /\ (~ sent[p] /\ sent'[p]) => pc[p] = "publish"
          /\ (pc[p] = "done" /\ log[p] = "info_skip") => ~ sent[p] /\ ~ sent'[p]
      ]_vars

\* the telemetry publish failed, the first failure, and the command
\* response that followed was skipped
C34_Witness ==
    \E p, q \in Callers :
        /\ PathOf(p) = "upload_telemetry_data_mqtt"
        /\ pc[p] = "done" /\ result[p] = "False" /\ log[p] = "warning"
        /\ PathOf(q) = "upload_command_response"
        /\ pc[q] = "done" /\ result[q] = "False" /\ log[q] = "info_skip"
        /\ ~ sent[q] /\ ~ conn[q]
        /\ _connection_failures = 1
        /\ InBackoffWindow

\* C35: while failures are counted, at most one publish call is between its
\* backoff check and the record of its result
C35_OneAttemptInFlight ==
    _connection_failures > 0
        => Cardinality({p \in Callers : Attempting(p)}) <= 1


\* C36: a message the exchange returns is a JSON object that carries the
\* action_id field, with the value the caller passed
C36_ReturnedCarriesId ==
    rr_result.kind = "object"
        => /\ rr_result.action_id \in ActionIds
           /\ rr_result.action_id = rr_args.action_id


\* the publisher's functions and the listener's inline test give the same
\* wait and the same decision in this step, when cond holds of the inputs
SamePolicyWhen(cond(_, _, _)) ==
    /\ \A p \in Callers :
          /\ ( /\ pc[p] = "idle" /\ result'[p] = "backoff"
               /\ cond(_last_connection_attempt, _connection_failures, now) )
               => value'[p] = ListenerBackoffTime(_connection_failures)
          /\ ( /\ pc[p] = "idle" /\ result'[p] \in {"attempt", "no_attempt"}
               /\ cond(_last_connection_attempt, _connection_failures, now) )
               => ( result'[p] = "no_attempt"
                      <=> ListenerMustWait(_last_connection_attempt,
                                           _connection_failures, now) )
    /\ ( /\ l_pc = "top" /\ l_pc' # "top"
         /\ cond(last_connection_attempt, connection_failures, now) )
         => /\ ( l_pc' = "connect"
                   <=> _should_attempt_connection(last_connection_attempt,
                                                  connection_failures, now) )
            /\ l_pc' = "backoff_wait"
                 => l_wake' - now
                      = Min(_get_backoff_time(connection_failures)
                              - (now - last_connection_attempt), SleepSlice)

AnyInputs(last, failures, current_time) == TRUE

\* the clock does not read earlier than the last attempt, or failures are
\* counted
ClockNotSetBack(last, failures, current_time) ==
    current_time >= last \/ failures > 0

\* C37 as stated: for every failure count, attempt time and clock reading
\* the two policies compute the same wait and the same decision
C37_SamePolicyAnyInputs ==
    [][SamePolicyWhen(AnyInputs)]_vars

\* C37: for every failure count, and for every attempt time and clock
\* reading where the clock does not read earlier than the last attempt or
\* failures are counted, _get_backoff_time/_should_attempt_connection and
\* the listener's loop head compute the same wait and the same decision
C37_SamePolicy ==
    [][SamePolicyWhen(ClockNotSetBack)]_vars

\* inside the window both refuse: the function returned False and the
\* listener's loop went to sleep, on the same inputs
C37_Witness ==
    /\ \E p \in Callers : pc[p] = "done" /\ result[p] = "no_attempt"
    /\ l_pc = "backoff_wait"
    /\ connection_failures = _connection_failures
    /\ last_connection_attempt = _last_connection_attempt
    /\ _connection_failures > 0
    /\ now >= _last_connection_attempt


\* C38: acquisition makes at most 3 attempts; when every attempt failed it
\* ends with OperationalError; and what it returns is an open connection
C38_BoundedRetries ==
    /\ Len(db_tries) <= DefaultRetries
    /\ ( /\ db_pc = "done"
         /\ db_tries # << >>
         /\ \A i \in 1 .. Len(db_tries) : db_tries[i] # "ok" )
         => db_result = "OperationalError"
    /\ (db_pc = "done" /\ db_result = "connection") => db_connection = "open"


\* a version is recorded only in the step after update_repository returned
\* True, with the target checked out, and it is the target
RecordedAfterUpdate ==
    fw_versions' # fw_versions
        => /\ fw_pc = "record"
           /\ fw_head = fw_args.target_tag
           /\ fw_versions' = Append(fw_versions, fw_args.target_tag)

\* a failed fetch ends update with False and leaves the checkout, the tags
\* and the recorded versions as they were
FetchFailureChangesNothing ==
    (fw_pc = "fetch" /\ fw_pc' = "done")
        => /\ fw_result' = "False"
           /\ fw_head' = fw_head
           /\ fw_backup' = "none" /\ fw_backup = "none"
           /\ fw_rollback' = "none"
           /\ fw_versions' = fw_versions

\* a failed checkout or pull goes to the rollback to the backup tag, and
\* no version is recorded from there on
FailureGoesToRollback ==
    /\ (fw_pc \in {"checkout", "pull"} /\ fw_pc' \notin {"record", "pull"})
          => fw_pc' = "rollback_backup"
    /\ fw_pc = "rollback_backup"
          => fw_pc' \in {"rollback_backup", "done"}
               /\ fw_versions' = fw_versions

\* the rollback to the backup tag that exists: it is checked out and update
\* returns False
RollbackReturnsFalse ==
    (fw_pc = "rollback_backup" /\ fw_backup # "none" /\ fw_pc' = "done")
        => /\ fw_head' = fw_backup
           /\ fw_rollback' = "backup"
           /\ fw_result' = "False"

\* the same, or the checkout of the backup tag fails and the process exits
RollbackReturnsFalseOrExits ==
    (fw_pc = "rollback_backup" /\ fw_backup # "none" /\ fw_pc' = "done")
        => \/ /\ fw_head' = fw_backup
              /\ fw_rollback' = "backup"
              /\ fw_result' = "False"
           \/ /\ fw_head' = fw_head
              /\ fw_rollback' = "none"
              /\ fw_result' = "SystemExit"

\* C39 as stated: the version is recorded only after update_repository
\* succeeded, a failed fetch changes nothing, and after a failed checkout
\* or pull the backup tag is checked out and update returns False
C39_RollbackAlwaysReturns ==
    [][ /\ RecordedAfterUpdate
        /\ FetchFailureChangesNothing
        /\ FailureGoesToRollback
        /\ RollbackReturnsFalse ]_vars

\* C39: the version is recorded only after update_repository succeeded, a
\* failed fetch changes nothing, and after a failed checkout or pull with
\* the backup tag created no version is recorded and either the backup tag
\* is checked out and update returns False, or the checkout of the backup
\* tag fails and the process exits
C39_UpdateRecordsAfterSuccess ==
    [][ /\ RecordedAfterUpdate
        /\ FetchFailureChangesNothing
        /\ FailureGoesToRollback
        /\ RollbackReturnsFalseOrExits ]_vars

\* the pull of a branch failed after the branch was checked out, the backup
\* tag was checked out again, and update returned False with no version
\* recorded
C39_Witness ==
    /\ fw_pc = "done"
    /\ fw_result = "False"
    /\ ~ IsTag(fw_args.target_tag)
    /\ fw_rollback = "backup"
    /\ fw_backup # "none"
    /\ fw_head = fw_backup
    /\ fw_versions = << >>


\* version v has a row in schema_version
Recorded(v) == \E k \in 1 .. Len(mg_rows) : mg_rows[k] = v

\* C40: in schema_version every version has at most one row, the rows of
\* the migrations stand in ascending order, a recorded migration has all
\* its statements committed, and every migration below a recorded one is
\* recorded
C40_MigrationsRecordedOnce ==
    /\ \A j, k \in 1 .. Len(mg_rows) : mg_rows[j] = mg_rows[k] => j = k
    /\ \A j, k \in 1 .. Len(mg_rows) : j < k => mg_rows[j] < mg_rows[k]
    /\ \A v \in 1 .. Len(Migrations) :
          Recorded(v)
             => /\ \A i \in 1 .. Len(Migrations[v]) : << v, i >> \in mg_done
                /\ \A u \in 1 .. v - 1 : Recorded(u)

\* a later run failed inside migration 2 after its first CREATE TABLE was
\* committed: migration 1 is recorded, migration 2 is not
C40_Witness ==
    /\ mg_runs >= 2
    /\ mg_pc = "done"
    /\ mg_result = "False"
    /\ Recorded(1)
    /\ ~ Recorded(2)
    /\ << 2, 1 >> \in mg_done
    /\ << 2, 3 >> \notin mg_done

====
